---- MODULE Spec2Model ----
(***************************************************************************)
(* A model of simple-rl-driver: the car kinematics and progress tracking   *)
(* (engine/entity/car.py), the AI car (engine/entity/ai_car.py), the       *)
(* neural network (engine/car_nn.py), selection and reproduction           *)
(* (engine/entity/car.py) and the training loop (train/main.py).           *)
(*                                                                         *)
(* Numbers.  Python floats are modelled in fixed point:                    *)
(*   - speed, acceleration, max_speed, turn_speed, the forward and turn    *)
(*     inputs, network weights and network values: thousandths;            *)
(*   - positions x, y: hundredths of a unit (track and curve coordinates   *)
(*     are whole units, as in bezier_curve.py);                            *)
(*   - angles: milliradians; time: milliseconds.                           *)
(* A product of two fixed-point numbers is divided back by its scale with  *)
(* truncation toward zero, so that the arithmetic is symmetric in sign as  *)
(* float arithmetic is.                                                    *)
(***************************************************************************)
EXTENDS Integers, Sequences, FiniteSets, TLC

VARIABLES
    car,          \* SpecCar: one Car driven by arbitrary inputs
    track,        \* index into Tracks of the track in use, 0 before any reset
    ticks,        \* update calls since the last reset (bounds the runs)
    ai_cars,      \* the population: a sequence of AICar records
    nets,         \* heap of CarNN objects: id -> fields
    arrays,       \* heap of numpy arrays: id -> flattened values
    select_count, \* args.select_count of the run
    generation,   \* number of selection_and_reproduce calls made (SpecSel),
                  \* of calls made on the network (SpecNN)
    call,         \* the last call made on the object under test, with its
                  \* arguments and its outcome
    editor        \* the TrackEditor: its curve and its edit state

vars == <<car, track, ticks, ai_cars, nets, arrays, select_count, generation,
          call, editor>>

\* No call was made
NoCall == [op |-> "none"]

\* TrackEditor.__init__: an empty curve, no point being edited (None is <<>>)
NewTrackEditor == [curve |-> <<>>, edit |-> <<>>]

----------------------------------------------------------------------------
(* Bounds of the model *)

\* update calls per episode in SpecCar
MaxTicks == 5
\* the max_speed argument of the Car of SpecCar, in whole units
CarMaxSpeed == 25

----------------------------------------------------------------------------
(* Program constants, in the model's fixed point *)

\* math.pi, in milliradians
Pi == 3142
\* Car.DEFAULT_MAX_SPEED
DEFAULT_MAX_SPEED == 400
\* Car.DEFAULT_TURN_SPEED
DEFAULT_TURN_SPEED == 2
\* Car.HEIGHT
HEIGHT == 32
\* Car.WIDTH
WIDTH == 24
\* deceleration = 0.6, in thousandths
deceleration == 600
\* out_of_track_deceleration = 6, in thousandths
out_of_track_deceleration == 6000
\* out_of_track_speed = 0.2, in thousandths
out_of_track_speed == 200
\* the factor 5000 of acceleration = forward * 5000 * dt
ACCELERATION_FACTOR == 5000
\* fixed_dt = 0.032 s, in milliseconds
fixed_dt == 32

TwoPi == 2 * Pi

----------------------------------------------------------------------------
(* Arithmetic helpers *)

Abs(a) == IF a < 0 THEN -a ELSE a

Min(a, b) == IF a <= b THEN a ELSE b

Max(a, b) == IF a >= b THEN a ELSE b

\* a / b rounded toward zero (b > 0)
TruncDiv(a, b) == IF a >= 0 THEN a \div b ELSE -((-a) \div b)

\* math.sin on [0, pi], in thousandths, by Bhaskara's rational approximation
\* 16 x (pi - x) / (5 pi^2 - 4 x (pi - x)); exact at 0, pi/2 and pi
BhaskaraSin(x) ==
    LET p == 4 * x * (Pi - x)
    IN  (200 * p) \div ((5 * Pi * Pi - p) \div 20)

\* math.sin(rad), rad in milliradians, result in thousandths
Sin(rad) ==
    LET r == rad % TwoPi
    IN  IF r <= Pi THEN BhaskaraSin(r) ELSE -BhaskaraSin(r - Pi)

\* math.cos(rad)
Cos(rad) == Sin(rad + Pi \div 2)

\* math.atan2(y, x) in milliradians; exact on the axes and the diagonals,
\* linear in the ratio within an octant otherwise
Atan2(y, x) ==
    CASE y = 0 /\ x >= 0 -> 0
      [] y = 0 /\ x < 0 -> Pi
      [] x = 0 /\ y > 0 -> Pi \div 2
      [] x = 0 /\ y < 0 -> -(Pi \div 2)
      [] OTHER ->
           LET small == Min(Abs(x), Abs(y))
               large == Max(Abs(x), Abs(y))
               oct == ((Pi \div 4) * small) \div large
               first == IF Abs(y) <= Abs(x) THEN oct ELSE Pi \div 2 - oct
               upper == IF x > 0 THEN first ELSE Pi - first
           IN  IF y > 0 THEN upper ELSE -upper

----------------------------------------------------------------------------
(* Bezier curve and its polyline (engine/bezier_curve.py) *)

\* BezierCurvePoint(x, y, control_x, control_y)
BezierCurvePoint(x, y, cx, cy) == [x |-> x, y |-> y, control_x |-> cx, control_y |-> cy]

\* BezierCurvePoint.opposite_control_point
opposite_control_point(p) ==
    <<p.x - (p.control_x - p.x), p.y - (p.control_y - p.y)>>

\* One coordinate of the cubic at t = a / b, truncated by int()
BezierCoord(p1, c1, o2, p2, a, b) ==
    TruncDiv((b - a) * (b - a) * (b - a) * p1
             + 3 * (b - a) * (b - a) * a * c1
             + 3 * (b - a) * a * a * o2
             + a * a * a * p2,
             b * b * b)

\* A slip in get_polyline: the end of the interval sampled as well
\* (np.linspace in place of np.arange)
ArangeLenInclusive(steps) == steps[2] \div steps[1] + 1

\* len(np.arange(0, 1, steps)) for steps = num / den: ceil(den / num)
ArangeLen(steps) == (steps[2] + steps[1] - 1) \div steps[1]

\* The samples of the segment p1 -> p2: t = j * steps for j = 0 .. ArangeLen - 1
SegmentPolyline(p1, p2, steps) ==
    [j \in 1..ArangeLen(steps) |->
        LET a == (j - 1) * steps[1]
            b == steps[2]
        IN  <<BezierCoord(p1.x, p1.control_x, opposite_control_point(p2)[1], p2.x, a, b),
              BezierCoord(p1.y, p1.control_y, opposite_control_point(p2)[2], p2.y, a, b)>>]

RECURSIVE PolylineFrom(_, _, _)
PolylineFrom(pts, i, steps) ==
    IF i >= Len(pts) THEN <<>>
    ELSE SegmentPolyline(pts[i], pts[i + 1], steps) \o PolylineFrom(pts, i + 1, steps)

\* BezierCurve.get_polyline(steps), steps a rational <<num, den>> in (0, 1]
get_polyline(pts, steps) == PolylineFrom(pts, 1, steps)

----------------------------------------------------------------------------
(* The text form of a curve (BezierCurve.serialize / deserialize)          *)
(*                                                                         *)
(* A str is the sequence of its characters, each a string of length one.   *)

DigitChars == <<"0", "1", "2", "3", "4", "5", "6", "7", "8", "9">>

\* The decimal digits of n >= 0
RECURSIVE FormatNat(_)
FormatNat(n) ==
    IF n < 10 THEN <<DigitChars[n + 1]>>
    ELSE FormatNat(n \div 10) \o <<DigitChars[(n % 10) + 1]>>

\* A slip in the formatting: the sign is dropped
FormatIntUnsigned(n) == FormatNat(Abs(n))

\* f"{n}" for an int n
FormatInt(n) == IF n < 0 THEN <<"-">> \o FormatNat(-n) ELSE FormatNat(n)

\* sep.join(parts), from part i on
RECURSIVE JoinFrom(_, _, _)
JoinFrom(parts, i, sep) ==
    IF i > Len(parts) THEN <<>>
    ELSE IF i = Len(parts) THEN parts[i]
    ELSE parts[i] \o sep \o JoinFrom(parts, i + 1, sep)

\* BezierCurve.serialize: one line "x y control_x control_y" per point,
\* the lines joined by "\n"
curve_serialize(pts) ==
    JoinFrom([i \in DOMAIN pts |->
                 FormatInt(pts[i].x) \o <<" ">> \o FormatInt(pts[i].y) \o <<" ">>
                 \o FormatInt(pts[i].control_x) \o <<" ">>
                 \o FormatInt(pts[i].control_y)],
             1, <<"\n">>)

\* str.split(ch): the pieces between the occurrences of ch, empty pieces
\* included; piece is the piece being read, i the next character
RECURSIVE SplitFrom(_, _, _, _)
SplitFrom(str, i, ch, piece) ==
    IF i > Len(str) THEN <<piece>>
    ELSE IF str[i] = ch THEN <<piece>> \o SplitFrom(str, i + 1, ch, <<>>)
    ELSE SplitFrom(str, i + 1, ch, Append(piece, str[i]))

\* The whitespace of str.strip() and str.split() that the text can hold
IsSpace(ch) == ch \in {" ", "\n", "\t", "\r"}

\* str.strip()
RECURSIVE strip(_)
strip(str) ==
    IF str = <<>> THEN str
    ELSE IF IsSpace(str[1]) THEN strip(Tail(str))
    ELSE IF IsSpace(str[Len(str)]) THEN strip(SubSeq(str, 1, Len(str) - 1))
    ELSE str

\* str.split(): the runs of characters that are not whitespace
RECURSIVE SplitSpaceFrom(_, _, _)
SplitSpaceFrom(str, i, piece) ==
    IF i > Len(str) THEN (IF piece = <<>> THEN <<>> ELSE <<piece>>)
    ELSE IF IsSpace(str[i])
         THEN (IF piece = <<>> THEN <<>> ELSE <<piece>>) \o SplitSpaceFrom(str, i + 1, <<>>)
    ELSE SplitSpaceFrom(str, i + 1, Append(piece, str[i]))

\* The value of a run of digits, acc the value of the digits before i
RECURSIVE DigitsValue(_, _, _)
DigitsValue(str, i, acc) ==
    IF i > Len(str) THEN acc
    ELSE DigitsValue(str, i + 1,
                     acc * 10 + (CHOOSE d \in 0..9 : DigitChars[d + 1] = str[i]))

\* int(str): an optional sign, then digits; ValueError otherwise
ParseInt(str) ==
    LET signed == str # <<>> /\ str[1] \in {"-", "+"}
        digits == IF signed THEN Tail(str) ELSE str
    IN  IF digits = <<>> \/ \E i \in DOMAIN digits :
                                 \A d \in DOMAIN DigitChars : DigitChars[d] # digits[i]
        THEN [status |-> "ValueError", value |-> 0]
        ELSE [status |-> "ok",
              value |-> IF signed /\ str[1] = "-" THEN -DigitsValue(digits, 1, 0)
                        ELSE DigitsValue(digits, 1, 0)]

\* BezierCurve.deserialize(data): a point per line that is not blank, from
\* the four ints of the line.  The exception raised (int of a field that is
\* no number, BezierCurvePoint called with other than four values), or "ok"
\* with the points.
curve_deserialize(data) ==
    LET lines == SelectSeq(SplitFrom(data, 1, "\n", <<>>), LAMBDA l : strip(l) # <<>>)
        fields == [k \in DOMAIN lines |->
                      LET words == SplitSpaceFrom(strip(lines[k]), 1, <<>>)
                      IN  [i \in DOMAIN words |-> ParseInt(words[i])]]
    IN  IF \E k \in DOMAIN fields : \E i \in DOMAIN fields[k] :
               fields[k][i].status # "ok"
        THEN [status |-> "ValueError", pts |-> <<>>]
        ELSE IF \E k \in DOMAIN fields : Len(fields[k]) # 4
        THEN [status |-> "TypeError", pts |-> <<>>]
        ELSE [status |-> "ok",
              pts |-> [k \in DOMAIN fields |->
                          BezierCurvePoint(fields[k][1].value, fields[k][2].value,
                                           fields[k][3].value, fields[k][4].value)]]

----------------------------------------------------------------------------
(* Track (engine/entity/track.py) *)

\* Track(curve, width, polyline_factor): the curve, the width and the polyline.
\* The polygon (the round-joined offset of the polyline by width) is not
\* stored: TrackContains decides membership in it.
Track(pts, width, steps) ==
    [curve |-> pts, width |-> width, polyline |-> get_polyline(pts, steps)]

\* The tracks of the runs: straight tracks along the y axis.
\* Polylines: <<0,0>>, <<0,52>>, <<0,54>>, <<0,81>> and <<0,0>>, <<0,27>>.
Tracks ==
    << Track(<<BezierCurvePoint(0, 0, 0, 70), BezierCurvePoint(0, 54, 0, 57),
               BezierCurvePoint(0, 108, 0, 111)>>, 21, <<1, 2>>),
       Track(<<BezierCurvePoint(0, 0, 0, 10), BezierCurvePoint(0, 54, 0, 64)>>,
             21, <<1, 2>>) >>

\* Squared distance (hundredths) from (px, py) to the segment a-b (whole
\* units) of a polyline; exact for the axis-parallel segments of Tracks,
\* the distance to the nearer end otherwise
SegDist2(px, py, a, b) ==
    LET ax == a[1] * 100
        ay == a[2] * 100
        bx == b[1] * 100
        by == b[2] * 100
        nx == IF ay = by THEN Max(Min(ax, bx), Min(px, Max(ax, bx)))
              ELSE IF Abs(px - ax) <= Abs(px - bx) THEN ax ELSE bx
        ny == IF ax = bx THEN Max(Min(ay, by), Min(py, Max(ay, by)))
              ELSE IF Abs(py - ay) <= Abs(py - by) THEN ay ELSE by
    IN  (px - nx) * (px - nx) + (py - ny) * (py - ny)

\* Polygon(track.polygon).contains(Point(x, y)): the polygon is the set of
\* points closer than width to the polyline
TrackContains(t, px, py) ==
    \E i \in 1..Max(1, Len(t.polyline) - 1) :
        SegDist2(px, py, t.polyline[i], t.polyline[Min(i + 1, Len(t.polyline))])
            < (t.width * 100) * (t.width * 100)

----------------------------------------------------------------------------
(* Car (engine/entity/car.py) *)

\* Car.__init__(x, y, rot, max_speed, turn_speed); max_speed and turn_speed
\* in whole units
NewCar(max_speed, turn_speed) ==
    [x |-> 0, y |-> 0, rot |-> 0,
     speed |-> 0, acceleration |-> 0,
     max_speed |-> max_speed * 1000, turn_speed |-> turn_speed * 1000,
     out_of_track |-> FALSE, progress |-> 0, total_progress |-> 0]

\* A slip in set_start_pos: total_progress one short of the polyline
StartTotalProgressShort(t) == Len(t.polyline) - 1

\* total_progress as set by set_start_pos
StartTotalProgress(t) == Len(t.polyline)

\* A slip in set_start_pos: the speed and the out_of_track flag are kept
set_start_posKeepsSpeed(c, t) ==
    [c EXCEPT !.x = t.curve[1].x * 100,
              !.y = t.curve[1].y * 100,
              !.acceleration = 0,
              !.rot = Atan2(t.curve[2].x - t.curve[1].x,
                            t.curve[2].y - t.curve[1].y) - Pi,
              !.progress = 0,
              !.total_progress = StartTotalProgress(t)]

\* Car.set_start_pos(track)
set_start_pos(c, t) ==
    [c EXCEPT !.x = t.curve[1].x * 100,
              !.y = t.curve[1].y * 100,
              !.speed = 0,
              !.acceleration = 0,
              !.out_of_track = FALSE,
              !.rot = Atan2(t.curve[2].x - t.curve[1].x,
                            t.curve[2].y - t.curve[1].y) - Pi,
              !.progress = 0,
              !.total_progress = StartTotalProgress(t)]

\* A slip in Car.update: the clamp to max_speed left out
ClampSpeedLeftOut(speed, max_speed) == speed

\* max(-max_speed, min(max_speed, speed))
ClampSpeed(speed, max_speed) == Max(-max_speed, Min(max_speed, speed))

\* A slip in Car.update: the snap of small speeds to 0 left out
SnapSpeedLeftOut(speed) == speed

\* if (speed < 0.1) and (speed > -0.1): speed = 0
SnapSpeed(speed) == IF speed < 100 /\ speed > -100 THEN 0 ELSE speed

\* speed -= speed * rate * dt (rate in thousandths, dt in milliseconds)
DecaySpeed(speed, rate, dt) ==
    SnapSpeed(speed - TruncDiv(speed * ((rate * dt) \div 100), 10000))

\* The speed after the acceleration / deceleration step of Car.update
LinearStep(c, forward, dt) ==
    LET acceleration == TruncDiv(forward * ACCELERATION_FACTOR * dt, 1000)
    IN  IF acceleration # 0
        THEN ClampSpeed(c.speed + TruncDiv(acceleration * dt, 1000), c.max_speed)
        ELSE DecaySpeed(c.speed, deceleration, dt)

\* Car.get_transform: the four corners, rotated by -rot about (x, y)
get_transform(c) ==
    LET cs == Cos(-c.rot)
        sn == Sin(-c.rot)
        w == (WIDTH * 100) \div 2
        h == (HEIGHT * 100) \div 2
        rotate_angle(x, y) ==
            <<c.x + TruncDiv(cs * x - sn * y, 1000),
              c.y + TruncDiv(sn * x + cs * y, 1000)>>
    IN  <<rotate_angle(-w, -h), rotate_angle(w, -h),
          rotate_angle(w, h), rotate_angle(-w, h)>>

\* not all(Polygon(track.polygon).contains(Point(x, y)) for the corners)
IsOutOfTrack(c, t) ==
    ~ \A k \in 1..4 : TrackContains(t, get_transform(c)[k][1], get_transform(c)[k][2])

\* A slip in Car.update: the out-of-track slow-down left out
OutOfTrackStepLeftOut(speed, max_speed, out, dt) == speed

\* The out-of-track slow-down of Car.update
OutOfTrackStep(speed, max_speed, out, dt) ==
    IF Abs(speed) * 1000 > max_speed * out_of_track_speed /\ out
    THEN DecaySpeed(speed, out_of_track_deceleration, dt)
    ELSE speed

\* Point(track.polyline[i]).distance(Point(x, y)) < track.width + HEIGHT
\* (i counts from 0 as in the code)
IsInCheckPt(t, i, x, y) ==
    LET dx == t.polyline[i + 1][1] * 100 - x
        dy == t.polyline[i + 1][2] * 100 - y
        r == (t.width + HEIGHT) * 100
    IN  dx * dx + dy * dy < r * r

\* The iterations of the progress loop from index i on: the value progress
\* has when the loop ends
RECURSIVE ScanCheckPts(_, _, _, _)
ScanCheckPts(t, i, x, y) ==
    IF i >= Len(t.polyline) THEN i
    ELSE IF ~IsInCheckPt(t, i, x, y) THEN i
    ELSE ScanCheckPts(t, i + 1, x, y)

\* A slip in the progress loop: for i in range(len(track.polyline))
ProgressLoopFromStart(t, progress, x, y) ==
    IF IsInCheckPt(t, 0, x, y) THEN ScanCheckPts(t, 0, x, y) ELSE progress

\* A slip in the progress loop: a single test, without the loop
ProgressLoopOnce(t, progress, x, y) ==
    IF progress < Len(t.polyline) /\ IsInCheckPt(t, progress, x, y)
    THEN progress + 1 ELSE progress

\* The progress loop of Car.update: for i in range(progress, len(polyline))
ProgressLoop(t, progress, x, y) == ScanCheckPts(t, progress, x, y)

\* A slip in rotate: the sum is not wrapped
rotateNoWrap(rot, rad) == rot + rad

\* Transformable.rotate(rad): (self.rot + rad) % (2 * math.pi); the result of
\* % has the sign of the divisor, as in Python
rotate(rot, rad) == (rot + rad) % TwoPi

\* Car.update(dt, track) with input_data = (forward, turn)
CarUpdate(c, forward, turn, dt, t) ==
    LET acceleration == TruncDiv(forward * ACCELERATION_FACTOR * dt, 1000)
        out == IsOutOfTrack(c, t)
        speed == OutOfTrackStep(LinearStep(c, forward, dt), c.max_speed, out, dt)
        dist == TruncDiv((-speed) * dt, 1000)
        x == c.x + TruncDiv(dist * Sin(c.rot), 10000)
        y == c.y + TruncDiv(dist * Cos(c.rot), 10000)
        rad == TruncDiv((-turn) * c.turn_speed * dt, 1000000)
    IN  [c EXCEPT !.acceleration = acceleration,
                  !.speed = speed,
                  !.out_of_track = out,
                  !.x = x,
                  !.y = y,
                  !.rot = rotate(c.rot, rad),
                  !.progress = ProgressLoop(t, c.progress, x, y)]

----------------------------------------------------------------------------
(* Objects (Python references) and numpy arrays                            *)
(*                                                                         *)
(* nets maps the id of each live CarNN object to its fields, arrays maps   *)
(* the id of each live numpy array to its shape and its values (row by     *)
(* row).  A list field (weights, prev_weights) is the sequence of the ids  *)
(* of its arrays: the code never rebinds an element of these lists to      *)
(* another array (weights[i] += ... updates the array in place), so the    *)
(* identity of the arrays is all that aliasing can depend on.              *)
(* Optional values: None is <<>>, a value v that is present is <<v>>.      *)

None == <<>>

Some(v) == <<v>>

\* The elements of the non-empty finite set of integers S in increasing order
RECURSIVE SortedSeq(_)
SortedSeq(S) ==
    IF S = {} THEN <<>>
    ELSE LET least == CHOOSE a \in S : \A b \in S : a <= b
         IN  <<least>> \o SortedSeq(S \ {least})

\* The ids of n objects allocated in the heap h: the n least ids not in use
FreshIds(h, n) ==
    SubSeq(SortedSeq((1..(Cardinality(DOMAIN h) + n)) \ DOMAIN h), 1, n)

\* The store: the two heaps together
Store(n, a) == [nets |-> n, arrays |-> a]

\* The ids of the arrays that the CarNN object net refers to
ArraysOf(net) ==
    {net.weights[k] : k \in DOMAIN net.weights}
    \cup (IF net.prev_weights = None THEN {}
          ELSE {net.prev_weights[1][k] : k \in DOMAIN net.prev_weights[1]})

\* Reference counting: the objects no car refers to any more are freed
Collect(st, cars) ==
    LET liveNets == {cars[i].nn : i \in DOMAIN cars}
        liveArrays == UNION {ArraysOf(st.nets[n]) : n \in liveNets}
    IN  Store([n \in liveNets |-> st.nets[n]], [a \in liveArrays |-> st.arrays[a]])

----------------------------------------------------------------------------
(* CarNN (engine/car_nn.py) *)

\* np.random.normal: the standard normal samples that are drawn.  A draw
\* is a seed; ZSample gives the sample (thousandths) of element k of
\* matrix i under that seed.
NoiseSeeds == {0, 1, 2}

ZSample(seed, i, k) ==
    CASE seed = 0 -> 0
      [] seed = 1 -> IF (i + k) % 2 = 0 THEN 1000 ELSE -1000
      [] OTHER -> IF (i + k) % 2 = 0 THEN -2000 ELSE 500

\* np.random.normal(loc, scale, size): loc + scale * z, elementwise
Normal(loc, scale, seed, i, size) ==
    [k \in 1..size |-> loc + TruncDiv(scale * ZSample(seed, i, k), 1000)]

\* A numpy array of the given shape and values
Array(rows, cols, data) == [shape |-> <<rows, cols>>, data |-> data]

\* The fields of a CarNN built by CarNN.__init__ from the arrays ws (ids)
\* whose shapes give layer_sizes; hiddens are zeros
CarNNFields(activation, ws, layer_sizes) ==
    [prev_fitness |-> None,
     prev_weights |-> None,
     weights |-> ws,
     layer_sizes |-> layer_sizes,
     hiddens |-> [k \in 1..(Len(layer_sizes) - 2) |->
                     [j \in 1..layer_sizes[k + 1] |-> 0]],
     activation |-> activation]

\* layer_sizes computed from the weights: [w0.shape[0] - 1, *(w.shape[1])]
LayerSizesOf(mats) ==
    <<mats[1].shape[1] - 1>> \o [k \in 1..Len(mats) |-> mats[k].shape[2]]

\* CarNN(activation, weights=mats) for a non-empty list of arrays: the new
\* store and the id of the new object.  The arrays are those passed in:
\* they are allocated here as the caller's fresh arrays.
NewCarNN(st, activation, mats) ==
    LET ids == FreshIds(st.arrays, Len(mats))
        id == FreshIds(st.nets, 1)[1]
        arrs == [a \in DOMAIN st.arrays \cup {ids[k] : k \in 1..Len(mats)} |->
                    IF a \in DOMAIN st.arrays THEN st.arrays[a]
                    ELSE mats[CHOOSE k \in 1..Len(mats) : ids[k] = a]]
        net == CarNNFields(activation, ids, LayerSizesOf(mats))
    IN  [nets |-> [n \in DOMAIN st.nets \cup {id} |->
                      IF n = id THEN net ELSE st.nets[n]],
         arrays |-> arrs,
         id |-> id]

\* A slip in selection_and_reproduce: the parent's network assigned without
\* deepcopy
deepcopyLeftOut(st, id) == [nets |-> st.nets, arrays |-> st.arrays, id |-> id]

\* A slip in selection_and_reproduce: copy.copy in place of deepcopy, a
\* new object that refers to the arrays of the original
deepcopyShallow(st, id) ==
    LET newId == FreshIds(st.nets, 1)[1]
    IN  [nets |-> [n \in DOMAIN st.nets \cup {newId} |->
                      IF n = newId THEN st.nets[id] ELSE st.nets[n]],
         arrays |-> st.arrays,
         id |-> newId]

\* copy.deepcopy(nn) of the CarNN object id: a new object whose arrays are
\* new arrays with the same values; arrays shared between weights and
\* prev_weights of the original are shared in the copy
deepcopy(st, id) ==
    LET net == st.nets[id]
        olds == SortedSeq(ArraysOf(net))
        news == FreshIds(st.arrays, Len(olds))
        copyOf(a) == news[CHOOSE k \in 1..Len(olds) : olds[k] = a]
        newId == FreshIds(st.nets, 1)[1]
        newNet == [net EXCEPT
                     !.weights = [k \in DOMAIN net.weights |-> copyOf(net.weights[k])],
                     !.prev_weights =
                         IF net.prev_weights = None THEN None
                         ELSE Some([k \in DOMAIN net.prev_weights[1] |->
                                       copyOf(net.prev_weights[1][k])])]
    IN  [nets |-> [n \in DOMAIN st.nets \cup {newId} |->
                      IF n = newId THEN newNet ELSE st.nets[n]],
         arrays |-> [a \in DOMAIN st.arrays \cup {news[k] : k \in 1..Len(news)} |->
                        IF a \in DOMAIN st.arrays THEN st.arrays[a]
                        ELSE st.arrays[olds[CHOOSE k \in 1..Len(news) : news[k] = a]]],
         id |-> newId]

\* A slip in mutate: a sign that is never 0 (fitness not worse counts as better)
SignNeverZero(a) == IF a >= 0 THEN 1 ELSE -1

\* np.sign
Sign(a) == IF a > 0 THEN 1 ELSE IF a < 0 THEN -1 ELSE 0

\* weights[i] += delta[i] for i = from .. len(weights), each on the array
\* in place, one after the other
RECURSIVE AddInPlace(_, _, _, _)
AddInPlace(arrs, ws, from, delta) ==
    IF from > Len(ws) THEN arrs
    ELSE LET a == ws[from]
             d == delta[from]
             updated == [arrs EXCEPT ![a].data =
                            [k \in DOMAIN arrs[a].data |-> arrs[a].data[k] + d[k]]]
         IN  AddInPlace(updated, ws, from + 1, delta)

\* A slip in mutate: the noise-only branch records the weights and the
\* fitness as well
mutateRemembering(st, id, noise, learn_rate, curr_fitness, seed) ==
    LET net == st.nets[id]
        delta == [i \in DOMAIN net.weights |->
                     Normal(0, noise, seed, i, Len(st.arrays[net.weights[i]].data))]
    IN  Store([st.nets EXCEPT ![id].prev_weights = Some(net.weights),
                              ![id].prev_fitness = curr_fitness],
              AddInPlace(st.arrays, net.weights, 1, delta))

\* CarNN.mutate(noise, learn_rate, curr_fitness) on the object id, with the
\* normal samples of seed; curr_fitness is None or Some(f)
mutate(st, id, noise, learn_rate, curr_fitness, seed) ==
    LET net == st.nets[id]
        size(i) == Len(st.arrays[net.weights[i]].data)
    IN  IF net.prev_weights = None \/ curr_fitness = None \/ learn_rate = 0
        THEN LET delta == [i \in DOMAIN net.weights |->
                              Normal(0, noise, seed, i, size(i))]
             IN  Store(st.nets, AddInPlace(st.arrays, net.weights, 1, delta))
        ELSE LET dfitness == curr_fitness[1] - net.prev_fitness[1]
                 dweights == [i \in DOMAIN net.weights |->
                                 [k \in 1..size(i) |->
                                     st.arrays[net.weights[i]].data[k]
                                     - st.arrays[net.prev_weights[1][i]].data[k]]]
                 sign == Sign(dfitness)
                 delta == [i \in DOMAIN net.weights |->
                              LET z == Normal(1000, noise, seed, i, size(i))
                              IN  [k \in 1..size(i) |->
                                      TruncDiv(TruncDiv(learn_rate * sign
                                                        * dweights[i][k], 1000)
                                               * z[k], 1000)]]
                 remembered == [net EXCEPT !.prev_fitness = curr_fitness,
                                           !.prev_weights = Some(net.weights)]
             IN  Store([st.nets EXCEPT ![id] = remembered],
                       AddInPlace(st.arrays, net.weights, 1, delta))

----------------------------------------------------------------------------
(* SpecCar: one Car, reset on any track and updated with any inputs at the *)
(* fixed timestep                                                          *)

\* The values of Car.Input.forward and Car.Input.turn that are drawn
InputValues == {-1000, 0, 1000}

\* The variables of the population, unused by SpecCar
NoPopulation ==
    /\ ai_cars = <<>>
    /\ nets = <<>>
    /\ arrays = <<>>
    /\ select_count = 0
    /\ generation = 0
    /\ call = NoCall

InitCar ==
    /\ editor = NewTrackEditor
    /\ car = NewCar(CarMaxSpeed, DEFAULT_TURN_SPEED)
    /\ track = 0
    /\ ticks = 0
    /\ NoPopulation

\* car.set_start_pos(track) on any track of Tracks
CarSetStartPos ==
    \E t \in 1..Len(Tracks) :
        /\ car' = set_start_pos(car, Tracks[t])
        /\ track' = t
        /\ ticks' = 0
        /\ UNCHANGED <<ai_cars, nets, arrays, select_count, generation, call, editor>>

\* car.update(fixed_dt, track) with any input, on the track of the last reset
CarUpdateStep ==
    /\ track # 0
    /\ ticks < MaxTicks
    /\ \E forward \in InputValues, turn \in InputValues :
           car' = CarUpdate(car, forward, turn, fixed_dt, Tracks[track])
    /\ ticks' = ticks + 1
    /\ UNCHANGED <<track, ai_cars, nets, arrays, select_count, generation, call, editor>>

NextCar == CarSetStartPos \/ CarUpdateStep

SpecCar == InitCar /\ [][NextCar]_vars

\* The activation functions relu and leaky_relu (engine/activations.py),
\* elementwise on a vector in thousandths
ApplyActivation(activation, v) ==
    [j \in DOMAIN v |->
        IF activation = "relu" THEN Max(0, v[j])
        ELSE Max(TruncDiv(10 * v[j], 1000), v[j])]

\* np.dot(np.concatenate((v, [1.0])), m) for the array m
DotWithBias(v, m) ==
    LET u == v \o <<1000>>
        cols == m.shape[2]
        Sum[k \in 0..Len(u)] ==
            IF k = 0 THEN [j \in 1..cols |-> 0]
            ELSE [j \in 1..cols |-> Sum[k - 1][j] + u[k] * m.data[(k - 1) * cols + j]]
    IN  [j \in 1..cols |-> TruncDiv(Sum[Len(u)][j], 1000)]

\* The hidden layers 1..i as activate computes them
RECURSIVE HiddensUpTo(_, _, _, _)
HiddensUpTo(net, arrs, inputs, i) ==
    IF i = 0 THEN <<>>
    ELSE LET below == HiddensUpTo(net, arrs, inputs, i - 1)
             from == IF i = 1 THEN inputs ELSE below[i - 1]
         IN  Append(below, ApplyActivation(net.activation,
                                           DotWithBias(from, arrs[net.weights[i]])))

\* A slip in activate: the outputs returned without np.clip
ClipLeftOut(v) == v

\* np.clip(v, -1.0, 1.0)
Clip(v) == [j \in DOMAIN v |-> Max(-1000, Min(1000, v[j]))]

\* A slip in activate: the length of the inputs checked only after the
\* first hidden layer was assigned
activateCheckLate(net, arrs, inputs) ==
    IF Len(inputs) # net.layer_sizes[1]
    THEN [status |-> "ValueError", outputs |-> <<>>,
          hiddens |-> [k \in DOMAIN net.hiddens |->
                          IF k = 1 THEN ApplyActivation(net.activation, inputs)
                          ELSE net.hiddens[k]]]
    ELSE [status |-> "ok", outputs |-> <<>>, hiddens |-> net.hiddens]

\* CarNN.activate(inputs) on the object net: the exception raised, or "ok"
\* with the outputs and the hidden layers it leaves in the object
activate(net, arrs, inputs) ==
    IF Len(inputs) # net.layer_sizes[1]
    THEN [status |-> "ValueError", outputs |-> <<>>, hiddens |-> net.hiddens]
    ELSE IF Len(net.hiddens) = 0
    THEN [status |-> "IndexError", outputs |-> <<>>, hiddens |-> net.hiddens]
    ELSE LET hiddens == HiddensUpTo(net, arrs, inputs, Len(net.hiddens))
         IN  [status |-> "ok",
              outputs |-> Clip(DotWithBias(hiddens[Len(hiddens)],
                                           arrs[net.weights[Len(net.weights)]])),
              hiddens |-> hiddens]

----------------------------------------------------------------------------
(* AICar and selection_and_reproduce (engine/entity/car.py) *)

\* The arguments of mutate in selection_and_reproduce, in thousandths
SELECT_NOISE == 100

SELECT_LEARN_RATE == 100

\* AICar.SENSOR_DIST: the maximum sensor distance
SENSOR_DIST == 500

\* The sensor configuration of the cars of the populations: no sensor
NoSensors == <<>>

\* AICar.__init__: a Car with the default speeds that owns the CarNN nn;
\* id is the identity of the car object.  inputs has len(sensor_rots) + 2
\* zeros: the two normalized speeds, then one entry per sensor
\* (sensors is inputs[2:]).  sensor_rots is in milliradians.
NewAICar(id, nn, sensor_rots) ==
    [id |-> id, nn |-> nn, forward |-> 0, turn |-> 0,
     inputs |-> [k \in 1..(Len(sensor_rots) + 2) |-> 0],
     sensor_rots |-> sensor_rots,
     angular_speed |-> 0,
     x |-> 0, y |-> 0, rot |-> 0,
     speed |-> 0, acceleration |-> 0,
     max_speed |-> DEFAULT_MAX_SPEED * 1000,
     turn_speed |-> DEFAULT_TURN_SPEED * 1000,
     out_of_track |-> FALSE, progress |-> 0, total_progress |-> 0]

\* AICar.get_fitness: progress / total_progress, in thousandths
get_fitness(c) == (c.progress * 1000) \div c.total_progress

\* Position (from 1) that member i of pop takes in
\* pop.sort(key=fitness, reverse=True): after every member of greater
\* fitness and after the earlier members of equal fitness (the sort is stable)
SortedPosition(pop, i) ==
    Cardinality({j \in DOMAIN pop : get_fitness(pop[j]) > get_fitness(pop[i])})
    + Cardinality({j \in DOMAIN pop :
                      j < i /\ get_fitness(pop[j]) = get_fitness(pop[i])})
    + 1

\* population.sort(key=lambda x: x.get_fitness(), reverse=True)
SortByFitness(pop) ==
    [k \in DOMAIN pop |-> pop[CHOOSE i \in DOMAIN pop : SortedPosition(pop, i) = k]]

\* A slip in selection_and_reproduce: the parent taken select_count places
\* up instead of cycling through the selected members
ParentIndexShifted(i, sc) == i - sc

\* The index (from 0) of the member whose network member i receives
ParentIndex(i, sc) == i % sc

\* A slip in selection_and_reproduce: the fitness of the parent is passed
MutateFitnessOfParent(pop, i, sc) == get_fitness(pop[ParentIndex(i, sc) + 1])

\* The third argument of the mutate call of member i (from 0):
\* population[i].get_fitness()
MutateFitness(pop, i, sc) == get_fitness(pop[i + 1])

\* The body of the loop of selection_and_reproduce for i (from 0) up to the
\* end of the population; seeds[i + 1] is the draw of the mutate call of i.
\* passed lists the fitness that each mutate call received.
RECURSIVE ReproduceFrom(_, _, _, _)
ReproduceFrom(i, sc, st, seeds) ==
    IF i >= Len(st.pop) THEN st
    ELSE LET parent == st.pop[ParentIndex(i, sc) + 1]
             copied == deepcopy(Store(st.nets, st.arrays), parent.nn)
             pop == [st.pop EXCEPT ![i + 1].nn = copied.id]
             fitness == MutateFitness(pop, i, sc)
             mutated == mutate(Store(copied.nets, copied.arrays), copied.id,
                               SELECT_NOISE, SELECT_LEARN_RATE,
                               Some(fitness), seeds[i + 1])
         IN  ReproduceFrom(i + 1, sc,
                           [pop |-> pop, nets |-> mutated.nets,
                            arrays |-> mutated.arrays,
                            passed |-> Append(st.passed, fitness)], seeds)

\* selection_and_reproduce(sc, pop) in the store st: the population and the
\* store after the call, the networks the call dropped being freed
selection_and_reproduce(sc, pop, st, seeds) ==
    IF sc = 0 THEN [pop |-> pop, nets |-> st.nets, arrays |-> st.arrays,
                    passed |-> <<>>]
    ELSE LET done == ReproduceFrom(sc, sc,
                                   [pop |-> SortByFitness(pop), nets |-> st.nets,
                                    arrays |-> st.arrays, passed |-> <<>>], seeds)
             kept == Collect(Store(done.nets, done.arrays), done.pop)
         IN  [pop |-> done.pop, nets |-> kept.nets, arrays |-> kept.arrays,
              passed |-> done.passed]

----------------------------------------------------------------------------
(* SpecSel: a population evolved by selection_and_reproduce.  Between two  *)
(* calls the cars drive, which brings each to some progress.               *)

MaxGen == 2

\* The weights of the networks the population starts with, one network per
\* car: layer sizes 2, 1, 2
InitialWeights ==
    << <<Array(3, 1, <<1000, -2000, 500>>), Array(2, 2, <<3000, -1000, 0, 200>>)>>,
       <<Array(3, 1, <<-7000, 9000, 4000>>), Array(2, 2, <<-6000, 8000, 700, -300>>)>>,
       <<Array(3, 1, <<20000, 15000, -12000>>),
         Array(2, 2, <<-15000, -20000, 11000, 16000>>)>> >>

\* The store after the networks of weights ws[1..n] were built, in order
RECURSIVE BuildNets(_, _)
BuildNets(ws, n) ==
    IF n = 0 THEN Store(<<>>, <<>>)
    ELSE LET built == NewCarNN(BuildNets(ws, n - 1), "relu", ws[n])
         IN  Store(built.nets, built.arrays)

\* The population after construction and set_start_pos on track t: car i
\* owns network i
InitialPopulation(t) ==
    [i \in 1..Len(InitialWeights) |-> set_start_pos(NewAICar(i, i, NoSensors), Tracks[t])]

\* The population pop with the progress of car i set to ps[i]
WithProgress(pop, ps) == [i \in DOMAIN pop |-> [pop[i] EXCEPT !.progress = ps[i]]]

InitSel ==
    /\ editor = NewTrackEditor
    /\ car = NewCar(CarMaxSpeed, DEFAULT_TURN_SPEED)
    /\ track = Len(Tracks)
    /\ ticks = 0
    /\ generation = 0
    /\ call = NoCall
    /\ select_count \in 0..Len(InitialWeights)
    /\ nets = BuildNets(InitialWeights, Len(InitialWeights)).nets
    /\ arrays = BuildNets(InitialWeights, Len(InitialWeights)).arrays
    /\ \E ps \in [1..Len(InitialWeights) -> 0..Len(Tracks[track].polyline)] :
           ai_cars = WithProgress(InitialPopulation(track), ps)

\* Driving between two calls: a car comes to some progress on the track
SelEpisode ==
    /\ generation < MaxGen
    /\ \E i \in DOMAIN ai_cars, p \in 0..Len(Tracks[track].polyline) :
           ai_cars' = [ai_cars EXCEPT ![i].progress = p]
    /\ call' = NoCall
    /\ UNCHANGED <<car, track, ticks, nets, arrays, select_count, generation, editor>>

\* selection_and_reproduce(select_count, ai_cars), with any draws
SelReproduce ==
    /\ generation < MaxGen
    /\ \E seeds \in [(select_count + 1)..Len(ai_cars) -> NoiseSeeds] :
           LET done == selection_and_reproduce(select_count, ai_cars,
                                               Store(nets, arrays), seeds)
           IN  /\ ai_cars' = done.pop
               /\ nets' = done.nets
               /\ arrays' = done.arrays
               /\ call' = [op |-> "selection_and_reproduce", passed |-> done.passed]
    /\ generation' = generation + 1
    /\ UNCHANGED <<car, track, ticks, select_count, editor>>

NextSel == SelEpisode \/ SelReproduce

SpecSel == InitSel /\ [][NextSel]_vars

----------------------------------------------------------------------------
(* Spec: the training loop (train/main.py) *)

\* AICar.reset_state(track): the controls zeroed, every sensor entry filled
\* with SENSOR_DIST (self.sensors.fill(self.SENSOR_DIST); the entries are in
\* thousandths), then the reset of Car.  inputs[0] and inputs[1] are kept.
reset_state(c, t) ==
    set_start_pos([c EXCEPT !.forward = 0, !.turn = 0, !.angular_speed = 0,
                            !.inputs = [k \in DOMAIN c.inputs |->
                                           IF k > 2 THEN SENSOR_DIST * 1000
                                                    ELSE c.inputs[k]]], t)

\* AICar._get_input: the inputs of the network are prepared, the controls
\* are set to 1 and -1.  angular_speed is the rate of the last rotation.
AIGetInput(c) ==
    [c EXCEPT !.inputs = <<TruncDiv(c.speed * 1000, c.max_speed),
                           TruncDiv(c.angular_speed * 1000, c.turn_speed)>>
                         \o SubSeq(c.inputs, 3, Len(c.inputs)),
              !.forward = 1000,
              !.turn = -1000]

\* Resolution of the sensor rays: the distance to the edge of the track is
\* measured in steps of SensorStep units along the ray
SensorStep == 5

\* The point at distance d (units) from (x, y) (hundredths) along the ray of
\* global rotation rot.  The ray of rotation 0 points where translate_forward
\* moves a car of positive speed in CarUpdate.
RayPoint(x, y, rot, d) ==
    <<x - TruncDiv(d * 100 * Sin(rot), 1000), y - TruncDiv(d * 100 * Cos(rot), 1000)>>

\* Distance (units) from the car to the nearest intersection of the ray with
\* the edge of the track (shapely_linear_ring.intersection, then distance):
\* the first step at which the ray changes side of the edge; d is the last
\* distance examined and inside tells on which side its point is.  -1 when
\* the ray of length SENSOR_DIST does not meet the edge (the intersection
\* is_empty).
RECURSIVE RayHit(_, _, _, _, _, _)
RayHit(t, x, y, rot, d, inside) ==
    IF d + SensorStep > SENSOR_DIST THEN -1
    ELSE LET p == RayPoint(x, y, rot, d + SensorStep)
             now == TrackContains(t, p[1], p[2])
         IN  IF now # inside THEN d + SensorStep
             ELSE RayHit(t, x, y, rot, d + SensorStep, now)

\* One entry of self.sensors in AICar.update: distance / SENSOR_DIST, or 1.0
\* when the ray meets no edge; in thousandths
SensorValue(c, t, sensor_rot) ==
    LET hit == RayHit(t, c.x, c.y, (sensor_rot + c.rot) % TwoPi, 0,
                      TrackContains(t, c.x, c.y))
    IN  IF hit = -1 THEN 1000 ELSE (hit * 1000) \div SENSOR_DIST

\* The assignment to self.sensors at the head of AICar.update
UpdateSensors(c, t) ==
    [c EXCEPT !.inputs = SubSeq(c.inputs, 1, 2)
                         \o [k \in DOMAIN c.sensor_rots |->
                                SensorValue(c, t, c.sensor_rots[k])]]

\* AICar.update(dt, track): the sensors are measured, then the update of Car
\* runs with the input that _get_input returns
AICarUpdate(c0, dt, t) ==
    LET c == UpdateSensors(c0, t)
        ready == AIGetInput(c)
        moved == CarUpdate(ready, ready.forward, ready.turn, dt, t)
    IN  [moved EXCEPT !.angular_speed = TruncDiv((-ready.turn) * c.turn_speed, 1000)]

\* all(car.out_of_track for car in ai_cars)
AllOutOfTrack(pop) == \A i \in DOMAIN pop : pop[i].out_of_track

\* next_iter(): every car is reset on the track
next_iter(pop, t) == [i \in DOMAIN pop |-> reset_state(pop[i], Tracks[t])]

\* The loop over the cars of one tick: every car that is on the track is updated
UpdateCars(pop, t) ==
    [i \in DOMAIN pop |->
        IF pop[i].out_of_track THEN pop[i] ELSE AICarUpdate(pop[i], fixed_dt, Tracks[t])]

Init ==
    /\ editor = NewTrackEditor
    /\ car = NewCar(CarMaxSpeed, DEFAULT_TURN_SPEED)
    /\ track \in 1..Len(Tracks)
    /\ ticks = 0
    /\ generation = 0
    /\ call = NoCall
    /\ select_count \in 1..Len(InitialWeights)
    /\ \E w \in [1..Len(InitialWeights) -> 1..Len(InitialWeights)] :
           LET ws == [i \in 1..Len(InitialWeights) |-> InitialWeights[w[i]]]
           IN  /\ nets = BuildNets(ws, Len(ws)).nets
               /\ arrays = BuildNets(ws, Len(ws)).arrays
    /\ ai_cars = next_iter([i \in 1..Len(InitialWeights) |-> NewAICar(i, i, NoSensors)], track)

\* One iteration of the main loop.  enter: the Enter key is among the
\* events; t1 and t2: the tracks random.choice gives if asked.
Tick ==
    \E enter \in BOOLEAN, t1 \in 1..Len(Tracks), t2 \in 1..Len(Tracks) :
        LET trackA == IF enter THEN t1 ELSE track
            popA == IF enter THEN next_iter(ai_cars, trackA) ELSE ai_cars
            allOut == AllOutOfTrack(popA)
            trackB == IF allOut THEN t2 ELSE trackA
            popB == IF allOut THEN next_iter(popA, trackB) ELSE popA
        IN  /\ track' = trackB
            /\ ai_cars' = SortByFitness(UpdateCars(popB, trackB))
            /\ ticks' = (IF enter \/ allOut THEN 0 ELSE ticks) + 1
            /\ UNCHANGED <<car, nets, arrays, select_count, generation, call, editor>>

Next == Tick

Spec == Init /\ [][Next]_vars

-----------------------------------------------------------------------------
(* SpecAI: the calls of reset_state and update on one AICar that has       *)
(* sensors (engine/entity/ai_car.py)                                       *)

\* The sensor rotations a car is constructed with, in milliradians
SensorRotsValues == {<<>>, <<0>>, <<-785, 785>>}

\* The car as its constructor leaves it, with its network; reset_state has
\* not been called yet
InitAI ==
    /\ editor = NewTrackEditor
    /\ car = NewCar(CarMaxSpeed, DEFAULT_TURN_SPEED)
    /\ track \in 1..Len(Tracks)
    /\ ticks = 0
    /\ generation = 0
    /\ select_count = 1
    /\ call = NoCall
    /\ \E w \in 1..Len(InitialWeights) :
           /\ nets = BuildNets(<<InitialWeights[w]>>, 1).nets
           /\ arrays = BuildNets(<<InitialWeights[w]>>, 1).arrays
    /\ \E rots \in SensorRotsValues : ai_cars = <<NewAICar(1, 1, rots)>>

\* car.reset_state(track), on the track that is loaded
AIReset ==
    \E t \in 1..Len(Tracks) :
        /\ track' = t
        /\ ai_cars' = <<reset_state(ai_cars[1], Tracks[t])>>
        /\ ticks' = 0
        /\ call' = [op |-> "reset_state"]
        /\ UNCHANGED <<car, nets, arrays, select_count, generation, editor>>

\* Ticks of the loop since the last reset in a run of SpecAI
MaxAITicks == 14

\* A slip in the loop: the car is updated whether it is on the track or not
LoopStepNoSkip(c, dt, t) == AICarUpdate(c, dt, t)

\* The body of the loop over the cars, for one car:
\* if car.out_of_track: continue; car.update(fixed_dt, track)
LoopStep(c, dt, t) == IF c.out_of_track THEN c ELSE AICarUpdate(c, dt, t)

\* One tick of the loop for the car: the loops reset every car before the
\* first tick; call tells whether the car was updated or skipped
AIUpdate ==
    /\ call.op # "none"
    /\ ticks < MaxAITicks
    /\ ai_cars' = <<LoopStep(ai_cars[1], fixed_dt, Tracks[track])>>
    /\ ticks' = ticks + 1
    /\ call' = [op |-> IF ai_cars[1].out_of_track THEN "skip" ELSE "update"]
    /\ UNCHANGED <<car, track, nets, arrays, select_count, generation, editor>>

NextAI == AIReset \/ AIUpdate

SpecAI == InitAI /\ [][NextAI]_vars

-----------------------------------------------------------------------------
(* SpecPos: two vehicles as Transformable objects whose pos is a reference *)
(* to a numpy array (engine/entity/transformable.py)                       *)
(*                                                                         *)
(* arrays maps the id of each position array to its shape and values       *)
(* (hundredths); the field pos of a vehicle is the id of its array.        *)

\* Updates made in a run of SpecPos
MaxMoves == 2

\* The array vec(0, 0) that is the default of the parameter pos: the default
\* is evaluated once, when the def statement of __init__ runs, and every
\* call that omits pos receives this same object
DefaultPos == 1

\* vec(x, y): a new array of two components
vec(x, y) == [shape |-> <<2>>, data |-> <<x, y>>]

\* Transformable.__init__(pos, rot) under the fields of Car.__init__:
\* self.pos = pos binds the field to the array passed, without a copy
NewVehicle(pos, rot) ==
    [pos |-> pos, rot |-> rot, speed |-> 0, acceleration |-> 0,
     max_speed |-> CarMaxSpeed * 1000,
     turn_speed |-> DEFAULT_TURN_SPEED * 1000,
     out_of_track |-> FALSE, progress |-> 0, total_progress |-> 0]

\* The car that the methods of vehicle v see: self.pos read through the
\* reference
Deref(v, arrs) ==
    [x |-> arrs[v.pos].data[1], y |-> arrs[v.pos].data[2], rot |-> v.rot,
     speed |-> v.speed, acceleration |-> v.acceleration,
     max_speed |-> v.max_speed, turn_speed |-> v.turn_speed,
     out_of_track |-> v.out_of_track, progress |-> v.progress,
     total_progress |-> v.total_progress]

\* Transformable.translate, to the position (x, y) that CarUpdate computed:
\* self.pos += delta updates the array in place
translate(vs, arrs, i, x, y) ==
    [cars |-> vs, arrays |-> [arrs EXCEPT ![vs[i].pos].data = <<x, y>>]]

\* vs[i].update(dt, track) with input (forward, turn): the fields of the
\* vehicle are assigned, its position array is updated by translate
VehicleUpdate(vs, arrs, i, forward, turn, dt, t) ==
    LET after == CarUpdate(Deref(vs[i], arrs), forward, turn, dt, t)
        moved == translate(vs, arrs, i, after.x, after.y)
    IN  [cars |-> [moved.cars EXCEPT ![i].rot = after.rot,
                                     ![i].speed = after.speed,
                                     ![i].acceleration = after.acceleration,
                                     ![i].out_of_track = after.out_of_track,
                                     ![i].progress = after.progress],
         arrays |-> moved.arrays]

\* Two vehicles, each constructed with the default pos or with an array of
\* its own, heading up or down the track
InitPos ==
    /\ editor = NewTrackEditor
    /\ car = NewCar(CarMaxSpeed, DEFAULT_TURN_SPEED)
    /\ track \in 1..Len(Tracks)
    /\ ticks = 0
    /\ generation = 0
    /\ select_count = 0
    /\ call = NoCall
    /\ nets = <<>>
    /\ \E own \in [1..2 -> BOOLEAN], rot \in [1..2 -> {0, Pi}] :
           /\ ai_cars = [i \in 1..2 |->
                            NewVehicle(IF own[i] THEN DefaultPos + i ELSE DefaultPos,
                                       rot[i])]
           /\ arrays = [a \in {DefaultPos} \cup {DefaultPos + i : i \in {k \in 1..2 : own[k]}}
                            |-> vec(0, 0)]

\* One vehicle of the loop over the cars is updated
PosUpdate ==
    /\ ticks < MaxMoves
    /\ \E i \in DOMAIN ai_cars, forward \in InputValues, turn \in InputValues :
           LET done == VehicleUpdate(ai_cars, arrays, i, forward, turn,
                                     fixed_dt, Tracks[track])
           IN  /\ ai_cars' = done.cars
               /\ arrays' = done.arrays
               /\ call' = [op |-> "update", car |-> i]
    /\ ticks' = ticks + 1
    /\ UNCHANGED <<car, track, nets, select_count, generation, editor>>

NextPos == PosUpdate

SpecPos == InitPos /\ [][NextPos]_vars

-----------------------------------------------------------------------------
(* SpecDecel: the deceleration step of Car.update as a function of the     *)
(* speed and of dt (engine/entity/car.py)                                  *)

\* Deceleration steps made in a run of SpecDecel
MaxDecel == 2

\* The speeds a car starts a run with, in thousandths
SpeedValues == {-25000, -10000, -1000, -150, -50, 0, 50, 150, 1000, 10000, 25000}

\* The values of the parameter dt of update, in milliseconds: the fixed
\* timestep of the loops and the frame times of a stalled caller
DtValues == {1, 16, fixed_dt, 100, 1000, 1666, 1667, 2000, 4000}

InitDecel ==
    /\ editor = NewTrackEditor
    /\ \E speed \in SpeedValues :
           car = [NewCar(CarMaxSpeed, DEFAULT_TURN_SPEED) EXCEPT !.speed = speed]
    /\ track = 0
    /\ ticks = 0
    /\ NoPopulation

\* The branch of Car.update that runs when forward is 0, with any dt
Decelerate ==
    /\ ticks < MaxDecel
    /\ \E dt \in DtValues :
           /\ car' = [car EXCEPT !.speed = LinearStep(car, 0, dt)]
           /\ call' = [op |-> "decelerate", dt |-> dt, before |-> car.speed]
    /\ ticks' = ticks + 1
    /\ UNCHANGED <<track, ai_cars, nets, arrays, select_count, generation, editor>>

NextDecel == Decelerate

SpecDecel == InitDecel /\ [][NextDecel]_vars

-----------------------------------------------------------------------------
(* SpecCurve: serialize, deserialize and get_polyline on a curve           *)
(* (engine/bezier_curve.py)                                                *)

\* Points of the curves of SpecCurve
MaxCurvePts == 2

\* The integer coordinates of the points
CoordValues == {-12, 0, 7, 105}

\* The points a curve is made of; the four fields of a point differ
CurvePointValues ==
    {BezierCurvePoint(x, y, x + 30, y - 40) : x \in CoordValues, y \in CoordValues}

\* The values of the parameter steps of get_polyline, <<num, den>>
StepsValues == {<<1, 1>>, <<1, 2>>, <<1, 3>>, <<2, 3>>, <<2, 5>>}

\* A curve of any number of points up to MaxCurvePts, the empty curve
\* included; it is held by the editor
InitCurve ==
    /\ car = NewCar(CarMaxSpeed, DEFAULT_TURN_SPEED)
    /\ track = 0
    /\ ticks = 0
    /\ NoPopulation
    /\ \E n \in 0..MaxCurvePts : \E pts \in [1..n -> CurvePointValues] :
           editor = [NewTrackEditor EXCEPT !.curve = pts]

\* BezierCurve.deserialize(curve.serialize()), as TrackEditor.save followed
\* by TrackEditor.load
CurveRoundTrip ==
    /\ call' = [op |-> "deserialize",
                status |-> curve_deserialize(curve_serialize(editor.curve)).status,
                pts |-> curve_deserialize(curve_serialize(editor.curve)).pts]
    /\ UNCHANGED <<car, track, ticks, ai_cars, nets, arrays, select_count,
                   generation, editor>>

\* list(curve.get_polyline(steps))
CurvePolyline ==
    /\ \E steps \in StepsValues :
           call' = [op |-> "get_polyline", steps |-> steps,
                    polyline |-> get_polyline(editor.curve, steps)]
    /\ UNCHANGED <<car, track, ticks, ai_cars, nets, arrays, select_count,
                   generation, editor>>

NextCurve == CurveRoundTrip \/ CurvePolyline

SpecCurve == InitCurve /\ [][NextCurve]_vars

-----------------------------------------------------------------------------
(* SpecCoast: a car that stays on the track and receives forward = 0 on    *)
(* every tick of the loop, at the fixed timestep (engine/entity/car.py)    *)

InitCoast == InitDecel

\* The speed after car.update(fixed_dt, track) with forward = 0 for a car
\* whose corners are on the track (out_of_track is computed False)
Coast ==
    /\ car' = [car EXCEPT !.speed = OutOfTrackStep(LinearStep(car, 0, fixed_dt),
                                                  car.max_speed, FALSE, fixed_dt),
                          !.acceleration = 0]
    /\ call' = [op |-> "coast", before |-> car.speed]
    /\ UNCHANGED <<track, ticks, ai_cars, nets, arrays, select_count, generation,
                   editor>>

NextCoast == Coast

\* The loop calls update on every tick: a tick that changes the state is
\* never postponed for ever
SpecCoast == InitCoast /\ [][NextCoast]_vars /\ WF_vars(Coast)

-----------------------------------------------------------------------------
(* SpecEdit: the event handlers of the track editor (track/editor.py)      *)
(*                                                                         *)
(* editor.curve is the list of the points, each with its position pos and  *)
(* its control point control; editor.edit is None or Some of a record with *)
(* the class of the state (kind), index (from 0) and is_new.               *)

\* Points of the curve in a run of SpecEdit
MaxEditPts == 2

\* TrackEditor.DEFAULT_POINT_SIZE
DEFAULT_POINT_SIZE == 6

\* screen.get_size()
ScreenSize == <<60, 20>>

\* The positions pygame.mouse.get_pos() returns
MousePositions == {<<10, 10>>, <<30, 10>>, <<50, 10>>}

\* The buttons of the mouse events: left and right
Buttons == {1, 3}

\* The keys of the key events, each with the Ctrl modifier down or up
Keys == {"K_DELETE", "K_BACKSPACE", "K_ESCAPE", "K_z", "K_v", "K_h", "K_s"}

\* TrackEditor.PointState(index, is_new)
PointState(index, is_new) == [kind |-> "PointState", index |-> index, is_new |-> is_new]

\* TrackEditor.ControlState(index, is_new)
ControlState(index, is_new) ==
    [kind |-> "ControlState", index |-> index, is_new |-> is_new]

\* TrackEditor.OppositeControlState(index)
OppositeControlState(index) ==
    [kind |-> "OppositeControlState", index |-> index, is_new |-> FALSE]

\* bc.BezierCurvePoint(pos, control)
EditPoint(pos, control) == [pos |-> pos, control |-> control]

\* The opposite control point of a point: pos - (control - pos)
opp_control(p) == <<p.pos[1] - (p.control[1] - p.pos[1]), p.pos[2] - (p.control[2] - p.pos[2])>>

\* np.linalg.norm(a - b) < size
Within(a, b, size) ==
    (a[1] - b[1]) * (a[1] - b[1]) + (a[2] - b[2]) * (a[2] - b[2]) < size * size

\* np.clip(mouse_pos, (0, 0), screen.get_size())
ClipToScreen(pos) ==
    <<Max(0, Min(ScreenSize[1], pos[1])), Max(0, Min(ScreenSize[2], pos[2]))>>

\* The point moved to pos, its control point moved along with it
move_to(p, pos) ==
    EditPoint(pos, <<p.control[1] + (pos[1] - p.pos[1]), p.control[2] + (pos[2] - p.pos[2])>>)

\* TrackEditor.on_mouse_up(button), the mouse being at mouse_pos
on_mouse_up(e, button, mouse_pos) ==
    IF button # 1 THEN e
    ELSE IF e.edit # None /\ e.edit[1].kind = "ControlState" /\ e.edit[1].is_new
    THEN LET pts == Append(e.curve, EditPoint(mouse_pos, mouse_pos))
         IN  [curve |-> pts, edit |-> Some(PointState(Len(pts) - 1, TRUE))]
    ELSE [e EXCEPT !.edit = None]

\* The state that the search of on_mouse_down over the points from index i
\* (from 0) on sets: the first point with a handle under the mouse; None
\* when the loop ends without break
RECURSIVE FirstHit(_, _, _)
FirstHit(pts, i, mouse_pos) ==
    IF i >= Len(pts) THEN None
    ELSE LET pt == pts[i + 1]
         IN  IF Within(pt.control, mouse_pos, DEFAULT_POINT_SIZE)
             THEN Some(ControlState(i, FALSE))
             ELSE IF Within(opp_control(pt), mouse_pos, DEFAULT_POINT_SIZE)
             THEN Some(OppositeControlState(i))
             ELSE IF Within(pt.pos, mouse_pos, DEFAULT_POINT_SIZE)
             THEN Some(PointState(i, FALSE))
             ELSE FirstHit(pts, i + 1, mouse_pos)

\* TrackEditor.on_mouse_down(button), the mouse being at mouse_pos
on_mouse_down(e, button, mouse_pos) ==
    IF button # 1 THEN e
    ELSE IF e.edit = None
    THEN IF FirstHit(e.curve, 0, mouse_pos) # None
         THEN [e EXCEPT !.edit = FirstHit(e.curve, 0, mouse_pos)]
         ELSE LET pts == Append(e.curve, EditPoint(mouse_pos, mouse_pos))
              IN  [curve |-> pts, edit |-> Some(ControlState(Len(pts) - 1, TRUE))]
    ELSE IF e.edit[1].kind = "PointState"
    THEN [e EXCEPT !.edit = Some(ControlState(e.edit[1].index, e.edit[1].is_new))]
    ELSE e

\* What a handler leaves when self.curve.pts[self.edit.index] raises: the
\* index is not one of the list
IndexError == [raised |-> "IndexError"]

\* TrackEditor.on_mouse_moved(screen), the mouse being at mouse_pos
on_mouse_moved(e, mouse_pos) ==
    IF e.edit = None THEN e
    ELSE IF e.edit[1].index >= Len(e.curve) THEN IndexError
    ELSE LET i == e.edit[1].index + 1
             pt == e.curve[i]
         IN  IF e.edit[1].kind = "PointState"
             THEN [e EXCEPT !.curve[i] = move_to(pt, ClipToScreen(mouse_pos))]
             ELSE IF e.edit[1].kind = "ControlState"
             THEN [e EXCEPT !.curve[i].control = mouse_pos]
             ELSE [e EXCEPT !.curve[i].control =
                       <<pt.pos[1] - (mouse_pos[1] - pt.pos[1]),
                         pt.pos[2] - (mouse_pos[2] - pt.pos[2])>>]

\* A slip in on_key_pressed: the last point is removed, the edit state kept
UndoKeepingEdit(e) == [e EXCEPT !.curve = SubSeq(e.curve, 1, Len(e.curve) - 1)]

\* The first branch of on_key_pressed: self.edit = None, then the last
\* point is removed
Undo(e) == [curve |-> SubSeq(e.curve, 1, Len(e.curve) - 1), edit |-> None]

\* The points mirrored in the screen on axis k (1: x, Ctrl+H; 2: y, Ctrl+V)
Mirror(pts, k) ==
    [i \in DOMAIN pts |->
        EditPoint([pts[i].pos EXCEPT ![k] = ScreenSize[k] - pts[i].pos[k]],
                  [pts[i].control EXCEPT ![k] = ScreenSize[k] - pts[i].control[k]])]

\* TrackEditor.on_key_pressed(key, screen) with the Ctrl modifier ctrl, the
\* mouse being at mouse_pos: the three tests run one after the other
on_key_pressed(e, key, ctrl, mouse_pos) ==
    LET undone == IF e.curve # <<>>
                     /\ (key \in {"K_DELETE", "K_BACKSPACE", "K_ESCAPE"}
                         \/ (key = "K_z" /\ ctrl))
                  THEN Undo(e) ELSE e
        flippedV == IF ctrl /\ key = "K_v"
                    THEN on_mouse_moved([undone EXCEPT !.curve = Mirror(undone.curve, 2)],
                                        mouse_pos)
                    ELSE undone
    IN  IF flippedV = IndexError THEN flippedV
        ELSE IF ctrl /\ key = "K_h"
        THEN on_mouse_moved([flippedV EXCEPT !.curve = Mirror(flippedV.curve, 1)],
                            mouse_pos)
        ELSE flippedV

\* TrackEditor(): the editor of a track that has no file yet
InitEdit ==
    /\ car = NewCar(CarMaxSpeed, DEFAULT_TURN_SPEED)
    /\ track = 0
    /\ ticks = 0
    /\ NoPopulation
    /\ editor = NewTrackEditor

\* Runs are cut at MaxEditPts points
WithinMaxEditPts(after) == after # IndexError => Len(after.curve) <= MaxEditPts

\* The editor after a handler returned after; an exception of the handler
\* leaves the editor as the handler found it
EditorAfter(after) == IF after = IndexError THEN editor ELSE after

\* The record of the handler op: how it ended, and the number of points it
\* found
EditCall(op, after) ==
    [op |-> op, status |-> IF after = IndexError THEN "IndexError" ELSE "ok",
     points |-> Len(editor.curve)]

\* pygame.MOUSEBUTTONDOWN
EditMouseDown ==
    \E button \in Buttons, mouse_pos \in MousePositions :
        LET after == on_mouse_down(editor, button, mouse_pos)
        IN  /\ WithinMaxEditPts(after)
            /\ editor' = EditorAfter(after)
            /\ call' = EditCall("on_mouse_down", after)
            /\ UNCHANGED <<car, track, ticks, ai_cars, nets, arrays, select_count, generation>>

\* pygame.MOUSEBUTTONUP
EditMouseUp ==
    \E button \in Buttons, mouse_pos \in MousePositions :
        LET after == on_mouse_up(editor, button, mouse_pos)
        IN  /\ WithinMaxEditPts(after)
            /\ editor' = EditorAfter(after)
            /\ call' = EditCall("on_mouse_up", after)
            /\ UNCHANGED <<car, track, ticks, ai_cars, nets, arrays, select_count, generation>>

\* pygame.MOUSEMOTION
EditMouseMoved ==
    \E mouse_pos \in MousePositions :
        LET after == on_mouse_moved(editor, mouse_pos)
        IN  /\ WithinMaxEditPts(after)
            /\ editor' = EditorAfter(after)
            /\ call' = EditCall("on_mouse_moved", after)
            /\ UNCHANGED <<car, track, ticks, ai_cars, nets, arrays, select_count, generation>>

\* pygame.KEYDOWN
EditKeyPressed ==
    \E key \in Keys, ctrl \in BOOLEAN, mouse_pos \in MousePositions :
        LET after == on_key_pressed(editor, key, ctrl, mouse_pos)
        IN  /\ WithinMaxEditPts(after)
            /\ editor' = EditorAfter(after)
            /\ call' = EditCall("on_key_pressed", after)
            /\ UNCHANGED <<car, track, ticks, ai_cars, nets, arrays, select_count, generation>>

NextEdit == EditMouseDown \/ EditMouseUp \/ EditMouseMoved \/ EditKeyPressed

SpecEdit == InitEdit /\ [][NextEdit]_vars

----------------------------------------------------------------------------
(* SpecNN: the calls of CarNN (engine/car_nn.py) on the network of one car *)

\* Calls made on the network in a run of SpecNN
MaxCalls == 2

\* `not x` for an optional list: None or the empty list
Falsy(opt) == opt = None \/ opt[1] = <<>>

\* CarNN(activation, weights, layer_sizes): weights and layer_sizes are None
\* or Some(list).  The exception raised, or "ok" with the store and the id
\* of the new object; seed is the draw of the random weights.
CarNNInit(st, activation, weights, layer_sizes, seed) ==
    IF Falsy(weights) /\ Falsy(layer_sizes)
    THEN [status |-> "ValueError", nets |-> st.nets, arrays |-> st.arrays, id |-> 0]
    ELSE LET mats == IF ~ Falsy(weights) THEN weights[1]
                     ELSE LET ls == layer_sizes[1]
                          IN  [i \in 1..(Len(ls) - 1) |->
                                  Array(ls[i] + 1, ls[i + 1],
                                        Normal(0, 1000, seed, i, (ls[i] + 1) * ls[i + 1]))]
             sizes == IF ~ Falsy(layer_sizes) THEN layer_sizes[1] ELSE LayerSizesOf(mats)
             ids == FreshIds(st.arrays, Len(mats))
             id == FreshIds(st.nets, 1)[1]
         IN  [status |-> "ok",
              nets |-> [n \in DOMAIN st.nets \cup {id} |->
                           IF n = id THEN CarNNFields(activation, ids, sizes)
                           ELSE st.nets[n]],
              arrays |-> [a \in DOMAIN st.arrays \cup {ids[k] : k \in 1..Len(mats)} |->
                             IF a \in DOMAIN st.arrays THEN st.arrays[a]
                             ELSE mats[CHOOSE k \in 1..Len(mats) : ids[k] = a]],
              id |-> id]

\* A slip in serialize: the matrix flattened (ravel) instead of tolist
tolistFlat(arr) == <<arr.data>>

\* ndarray.tolist() of a matrix: the list of its rows
tolist(arr) ==
    [r \in 1..arr.shape[1] |->
        [c \in 1..arr.shape[2] |-> arr.data[(r - 1) * arr.shape[2] + c]]]

\* The elements of the rows from row r on, one row after the other
RECURSIVE Flatten(_, _)
Flatten(rows, r) ==
    IF r > Len(rows) THEN <<>> ELSE rows[r] \o Flatten(rows, r + 1)

\* np.array(rows, dtype=np.float32) of a list of rows of equal length: the
\* shape is taken from the nesting
np_array(rows) ==
    IF rows = <<>> THEN [shape |-> <<0>>, data |-> <<>>]
    ELSE Array(Len(rows), Len(rows[1]), Flatten(rows, 1))

\* CarNN.serialize(): the JSON text, as the nested lists it denotes
serialize(net, arrs) == [k \in DOMAIN net.weights |-> tolist(arrs[net.weights[k]])]

\* CarNN.deserialize(activation, string, init_mutate_noise)
deserialize(st, activation, string, init_mutate_noise, seed) ==
    LET nn == CarNNInit(st, activation,
                        Some([k \in DOMAIN string |-> np_array(string[k])]), None, seed)
    IN  IF nn.status = "ok" /\ init_mutate_noise # 0
        THEN LET mutated == mutate(Store(nn.nets, nn.arrays), nn.id,
                                   init_mutate_noise, 0, None, seed)
             IN  [nn EXCEPT !.nets = mutated.nets, !.arrays = mutated.arrays]
        ELSE nn

\* The matrices mats as they were one mutation ago, for a network that is
\* given to mutate with its memory set
RememberedWeights(mats) ==
    [k \in DOMAIN mats |->
        [mats[k] EXCEPT !.data = [e \in DOMAIN mats[k].data |-> mats[k].data[e] - 100 * e]]]

\* The store st in which the network id remembers the matrices mats and the
\* fitness f as prev_weights and prev_fitness
WithMemory(st, id, mats, f) ==
    LET ids == FreshIds(st.arrays, Len(mats))
    IN  Store([st.nets EXCEPT ![id].prev_weights = Some(ids),
                              ![id].prev_fitness = Some(f)],
              [a \in DOMAIN st.arrays \cup {ids[k] : k \in 1..Len(mats)} |->
                  IF a \in DOMAIN st.arrays THEN st.arrays[a]
                  ELSE mats[CHOOSE k \in 1..Len(mats) : ids[k] = a]])

\* The values the arguments of the calls are drawn from
NoiseValues == {0, 100}

LearnRateValues == {0, 100}

FitnessValues == {0, 500}

InputVectors == {<<500>>, <<0, 0>>, <<1000, -1000>>, <<500, 0, 1000>>}

LayerSizesValues == {<<2, 1, 2>>, <<1, 2>>, <<2>>}

\* The network mutate is called on is an argument of the call as much as
\* noise is: it is drawn with its mutation memory unset, as __init__
\* leaves it, or set.
\* The activation functions a network is constructed with
ActivationValues == {"relu", "leaky_relu"}

InitNN ==
    /\ editor = NewTrackEditor
    /\ car = NewCar(CarMaxSpeed, DEFAULT_TURN_SPEED)
    /\ track = 0
    /\ ticks = 0
    /\ select_count = 0
    /\ generation = 0
    /\ call = NoCall
    /\ ai_cars = <<NewAICar(1, 1, NoSensors)>>
    /\ \E w \in 1..2, remembers \in BOOLEAN, f \in FitnessValues,
          activation \in ActivationValues :
           LET built == BuildNets(<<InitialWeights[w]>>, 1)
               st == IF remembers
                     THEN WithMemory(built, 1, RememberedWeights(InitialWeights[w]), f)
                     ELSE built
           IN  /\ nets = [st.nets EXCEPT ![1].activation = activation]
               /\ arrays = st.arrays

\* nn.mutate(noise, learn_rate, curr_fitness)
NNMutate ==
    /\ generation < MaxCalls
    /\ \E noise \in NoiseValues, learn_rate \in LearnRateValues,
          curr_fitness \in {None} \cup {Some(f) : f \in FitnessValues},
          seed \in NoiseSeeds :
           LET done == mutate(Store(nets, arrays), ai_cars[1].nn,
                              noise, learn_rate, curr_fitness, seed)
               kept == Collect(done, ai_cars)
           IN  /\ nets' = kept.nets
               /\ arrays' = kept.arrays
               /\ call' = [op |-> "mutate", noise |-> noise, learn_rate |-> learn_rate,
                           curr_fitness |-> curr_fitness, seed |-> seed, status |-> "ok"]
    /\ generation' = generation + 1
    /\ UNCHANGED <<car, track, ticks, ai_cars, select_count, editor>>

\* nn.activate(inputs)
NNActivate ==
    /\ generation < MaxCalls
    /\ \E inputs \in InputVectors :
           LET id == ai_cars[1].nn
               out == activate(nets[id], arrays, inputs)
           IN  /\ nets' = [nets EXCEPT ![id].hiddens = out.hiddens]
               /\ call' = [op |-> "activate", inputs |-> inputs,
                           status |-> out.status, outputs |-> out.outputs]
    /\ generation' = generation + 1
    /\ UNCHANGED <<car, track, ticks, ai_cars, arrays, select_count, editor>>

\* car.nn = CarNN(activation, weights, layer_sizes): the assignment is not
\* made when the constructor raises
NNNew ==
    /\ generation < MaxCalls
    /\ \E weights \in {None, Some(InitialWeights[3])},
          layer_sizes \in {None} \cup {Some(ls) : ls \in LayerSizesValues},
          seed \in NoiseSeeds :
           LET nn == CarNNInit(Store(nets, arrays), "relu", weights, layer_sizes, seed)
               cars == [ai_cars EXCEPT ![1].nn = nn.id]
               kept == Collect(Store(nn.nets, nn.arrays), cars)
           IN  /\ call' = [op |-> "init", weights |-> weights,
                           layer_sizes |-> layer_sizes, status |-> nn.status]
               /\ IF nn.status = "ok"
                  THEN ai_cars' = cars /\ nets' = kept.nets /\ arrays' = kept.arrays
                  ELSE UNCHANGED <<ai_cars, nets, arrays>>
    /\ generation' = generation + 1
    /\ UNCHANGED <<car, track, ticks, select_count, editor>>

\* car.nn = CarNN.deserialize(activation, car.nn.serialize(), init_mutate_noise)
NNRoundTrip ==
    /\ generation < MaxCalls
    /\ \E init_mutate_noise \in NoiseValues, seed \in NoiseSeeds :
           LET old == nets[ai_cars[1].nn]
               nn == deserialize(Store(nets, arrays), old.activation,
                                 serialize(old, arrays), init_mutate_noise, seed)
               cars == [ai_cars EXCEPT ![1].nn = nn.id]
               kept == Collect(Store(nn.nets, nn.arrays), cars)
           IN  /\ call' = [op |-> "deserialize", init_mutate_noise |-> init_mutate_noise,
                           status |-> nn.status]
               /\ IF nn.status = "ok"
                  THEN ai_cars' = cars /\ nets' = kept.nets /\ arrays' = kept.arrays
                  ELSE UNCHANGED <<ai_cars, nets, arrays>>
    /\ generation' = generation + 1
    /\ UNCHANGED <<car, track, ticks, select_count, editor>>

NextNN == NNMutate \/ NNActivate \/ NNNew \/ NNRoundTrip

SpecNN == InitNN /\ [][NextNN]_vars

----------------------------------------------------------------------------
(* SpecNNFresh: the calls of SpecNN and deep copies, on a network as its   *)
(* constructor leaves it                                                   *)

\* The network of the car is as CarNN.__init__ built it
InitNNFresh ==
    /\ InitNN
    /\ nets[ai_cars[1].nn].prev_weights = None
    /\ nets[ai_cars[1].nn].prev_fitness = None

\* car.nn = deepcopy(car.nn), the assignment of selection_and_reproduce
NNDeepCopy ==
    /\ generation < MaxCalls
    /\ LET copied == deepcopy(Store(nets, arrays), ai_cars[1].nn)
           cars == [ai_cars EXCEPT ![1].nn = copied.id]
           kept == Collect(Store(copied.nets, copied.arrays), cars)
       IN  /\ ai_cars' = cars
           /\ nets' = kept.nets
           /\ arrays' = kept.arrays
    /\ call' = [op |-> "deepcopy"]
    /\ generation' = generation + 1
    /\ UNCHANGED <<car, track, ticks, select_count, editor>>

NextNNFresh == NextNN \/ NNDeepCopy

SpecNNFresh == InitNNFresh /\ [][NextNNFresh]_vars

----------------------------------------------------------------------------
(* Claims about Car.update and Car.set_start_pos, under SpecCar *)

\* A step of SpecCar that is an update call
IsCarUpdate == ticks' = ticks + 1

\* C6: between two resets, no update call decreases the progress of the car.
C6_ProgressNeverDecreases ==
    [][IsCarUpdate => car'.progress >= car.progress]_vars

\* C6 witness: the progress went up in a later update of an episode
C6_Witness == track = 1 /\ ticks > 1 /\ car.progress = 3

\* C7: after a reset and any number of updates on the same track,
\* 0 <= progress <= total_progress = len(track.polyline), the next checkpoint
\* read (if any) is an index of the polyline, and the fitness is in [0, 1].
C7_ProgressBounded ==
    track # 0 =>
        /\ 0 <= car.progress
        /\ car.progress <= car.total_progress
        /\ car.total_progress = Len(Tracks[track].polyline)
        /\ car.progress < car.total_progress
               => car.progress + 1 \in DOMAIN Tracks[track].polyline
        /\ 0 <= get_fitness(car)
        /\ get_fitness(car) <= 1000

\* C7 witness: the car has passed every checkpoint of its track
C7_Witness ==
    track # 0 /\ ticks > 0 /\ car.progress = car.total_progress
              /\ get_fitness(car) = 1000

\* Whether checkpoint i (from 0) of track t is within width + HEIGHT of c
CheckPtInRange(t, i, c) ==
    (t.polyline[i + 1][1] * 100 - c.x) * (t.polyline[i + 1][1] * 100 - c.x)
    + (t.polyline[i + 1][2] * 100 - c.y) * (t.polyline[i + 1][2] * 100 - c.y)
        < ((t.width + HEIGHT) * 100) * ((t.width + HEIGHT) * 100)

\* C8 as stated: one update call advances the progress by at most 1, and
\* only when the next checkpoint is within track.width + HEIGHT of the car.
C8_Original ==
    [][IsCarUpdate =>
          /\ car'.progress <= car.progress + 1
          /\ car'.progress = car.progress + 1
                 => CheckPtInRange(Tracks[track], car.progress, car')]_vars

\* C8 amended: one update call advances the progress past every consecutive
\* checkpoint, from polyline[progress] on, that is within track.width + HEIGHT
\* of the car's new position: by k >= 0, k possibly above 1, stopping at the
\* first checkpoint out of range or at the end of the polyline.
C8_AdvancesPastAllInRange ==
    [][IsCarUpdate =>
          /\ car'.progress >= car.progress
          /\ \A i \in car.progress..(car'.progress - 1) :
                 CheckPtInRange(Tracks[track], i, car')
          /\ \/ car'.progress = Len(Tracks[track].polyline)
             \/ ~CheckPtInRange(Tracks[track], car'.progress, car')]_vars

\* C8 witness: the first update of an episode took the progress from 0 to 2
C8_Witness == track = 1 /\ ticks = 1 /\ car.progress = 2

\* C9: at the fixed timestep, with any forward inputs, |speed| <= max_speed.
C9_SpeedWithinMax == Abs(car.speed) <= car.max_speed

\* C9 witness: sustained forward input has brought the speed to max_speed
C9_Witness == ticks > 0 /\ car.speed = car.max_speed

----------------------------------------------------------------------------
(* Claims about selection_and_reproduce, under SpecSel *)

\* A step of SpecSel that is a call of selection_and_reproduce
IsSelection == generation' = generation + 1

\* The values (shape and elements) of the weight matrices of network id in
\* the heaps ns and as
WeightValues(ns, as, id) == [k \in DOMAIN ns[id].weights |-> as[ns[id].weights[k]]]

\* The values of prev_weights of network id: None or the matrices
PrevWeightValues(ns, as, id) ==
    IF ns[id].prev_weights = None THEN None
    ELSE Some([k \in DOMAIN ns[id].prev_weights[1] |-> as[ns[id].prev_weights[1][k]]])

\* The car object id as it was before the step
CarBefore(id) == ai_cars[CHOOSE i \in DOMAIN ai_cars : ai_cars[i].id = id]

\* The matrices child are the matrices parent after one mutate call of
\* selection_and_reproduce on a network without prev_weights
MutatedOnce(child, parent) ==
    /\ Len(child) = Len(parent)
    /\ \E seed \in NoiseSeeds :
           \A k \in DOMAIN parent :
               /\ child[k].shape = parent[k].shape
               /\ child[k].data =
                      [e \in DOMAIN parent[k].data |->
                          parent[k].data[e]
                          + Normal(0, SELECT_NOISE, seed, k, Len(parent[k].data))[e]]

C3_SelectedUntouched ==
    [][IsSelection =>
          \A k \in 1..Min(select_count, Len(ai_cars')) :
              LET before == CarBefore(ai_cars'[k].id).nn
                  after == ai_cars'[k].nn
              IN  /\ after = before
                  /\ WeightValues(nets', arrays', after) = WeightValues(nets, arrays, before)
                  /\ PrevWeightValues(nets', arrays', after)
                         = PrevWeightValues(nets, arrays, before)
                  /\ nets'[after].prev_fitness = nets[before].prev_fitness
    ]_vars

\* C3 witness: two members were selected and kept the weights they were
\* built with, while the third received a clone with other weights
C3_Witness ==
    /\ generation = 1
    /\ select_count = 2
    /\ \A k \in 1..2 :
           WeightValues(nets, arrays, ai_cars[k].nn) = InitialWeights[ai_cars[k].id]
    /\ \A n \in 1..Len(InitialWeights) :
           WeightValues(nets, arrays, ai_cars[3].nn) # InitialWeights[n]

\* No two cars of the population refer to the same network object or to a
\* common array
NoSharedNetwork ==
    \A i \in DOMAIN ai_cars, j \in DOMAIN ai_cars :
        i # j => /\ ai_cars[i].nn # ai_cars[j].nn
                 /\ ArraysOf(nets[ai_cars[i].nn]) \cap ArraysOf(nets[ai_cars[j].nn]) = {}

\* C4: after any number of calls of selection_and_reproduce no two cars share
\* a network object or a weight matrix, and no call changes the values of an
\* array that is in use both before and after it (the arrays the call mutates
\* are the new arrays of the clones).
C4_NoAliasing ==
    /\ []NoSharedNetwork
    /\ [][IsSelection =>
             \A a \in DOMAIN arrays \cap DOMAIN arrays' : arrays'[a] = arrays[a]]_vars

\* C4 witness: after two generations with one selected member, the two
\* clones of that member hold weights that differ from it and from each other
C4_Witness ==
    /\ generation = 2
    /\ select_count = 1
    /\ WeightValues(nets, arrays, ai_cars[2].nn) # WeightValues(nets, arrays, ai_cars[1].nn)
    /\ WeightValues(nets, arrays, ai_cars[3].nn) # WeightValues(nets, arrays, ai_cars[1].nn)
    /\ WeightValues(nets, arrays, ai_cars[2].nn) # WeightValues(nets, arrays, ai_cars[3].nn)

----------------------------------------------------------------------------
(* Claims about the training loop, under Spec *)

\* The network that the car object id holds after the step
NetAfter(id) == ai_cars'[CHOOSE k \in DOMAIN ai_cars' : ai_cars'[k].id = id].nn

\* C1: a tick of the training loop that begins with every car out of track
\* runs the next-generation step before it updates the cars: with the cars
\* ranked by fitness, every member at rank i >= select_count (from 0) holds
\* after the tick a once-mutated clone of the network of the member at rank
\* i mod select_count.
C1_NextGenerationOnAllOut ==
    [][AllOutOfTrack(ai_cars) =>
          LET ranked == SortByFitness(ai_cars)
          IN  \A i \in select_count..(Len(ranked) - 1) :
                  MutatedOnce(WeightValues(nets', arrays', NetAfter(ranked[i + 1].id)),
                              WeightValues(nets, arrays,
                                           ranked[(i % select_count) + 1].nn))
    ]_vars

\* C1 witness: every car is out of track, one member is to be selected, and
\* the last car holds a network that is no once-mutated clone of the first's
C1_Witness ==
    /\ AllOutOfTrack(ai_cars)
    /\ select_count = 1
    /\ ~ MutatedOnce(WeightValues(nets, arrays, ai_cars[3].nn),
                     WeightValues(nets, arrays, ai_cars[1].nn))

\* C5: once a car was updated, the forward and turn controls it holds are the
\* outputs of activate of its network on the inputs it holds.
C5_ControlsFromNetwork ==
    ticks > 0 =>
        \A i \in DOMAIN ai_cars :
            LET out == activate(nets[ai_cars[i].nn], arrays, ai_cars[i].inputs)
            IN  /\ out.status = "ok"
                /\ <<ai_cars[i].forward, ai_cars[i].turn>> = out.outputs

\* C5 witness: a car was updated with inputs on which its network gives
\* other controls than full forward and full turn
C5_Witness ==
    /\ ticks > 1
    /\ ai_cars[1].inputs[1] > 0
    /\ activate(nets[ai_cars[1].nn], arrays, ai_cars[1].inputs).status = "ok"
    /\ activate(nets[ai_cars[1].nn], arrays, ai_cars[1].inputs).outputs # <<1000, -1000>>

----------------------------------------------------------------------------
(* Claims about CarNN, under SpecNN *)

\* The network of the car of SpecNN
TheNN == ai_cars[1].nn

\* A step of SpecNN that is a call of mutate
IsMutate == generation' = generation + 1 /\ call'.op = "mutate"

\* A call of mutate that takes the gradient-assisted branch
IsGradientMutate ==
    /\ IsMutate
    /\ nets[TheNN].prev_weights # None
    /\ call'.curr_fitness # None
    /\ call'.learn_rate # 0

C12_EqualFitnessKeepsWeights ==
    [][(IsGradientMutate /\ call'.curr_fitness = nets[TheNN].prev_fitness) =>
          WeightValues(nets', arrays', TheNN) = WeightValues(nets, arrays, TheNN)
    ]_vars

\* C12 witness: the first call was gradient-assisted with noise, on a network
\* that remembered other weights and the fitness of the call; its weights are
\* those it was built with
C12_Witness ==
    /\ generation = 1
    /\ call.op = "mutate"
    /\ call.noise > 0
    /\ call.learn_rate > 0
    /\ call.seed > 0
    /\ call.curr_fitness = Some(0)
    /\ nets[TheNN].prev_fitness = Some(0)
    /\ nets[TheNN].prev_weights = Some(nets[TheNN].weights)
    /\ WeightValues(nets, arrays, TheNN) = InitialWeights[1]

\* A call of mutate that takes the pure-random branch
IsRandomMutate == IsMutate /\ ~ IsGradientMutate

\* The matrices after are the matrices before with the samples of seed,
\* scaled by noise, added elementwise
PerturbedBy(after, before, noise, seed) ==
    /\ Len(after) = Len(before)
    /\ \A k \in DOMAIN before :
           /\ after[k].shape = before[k].shape
           /\ after[k].data =
                  [e \in DOMAIN before[k].data |->
                      before[k].data[e]
                      + Normal(0, noise, seed, k, Len(before[k].data))[e]]

\* The weights after a pure-random call of mutate: unchanged for noise 0, the
\* elementwise perturbation otherwise
RandomMutateWeights ==
    /\ call'.noise = 0 =>
           WeightValues(nets', arrays', TheNN) = WeightValues(nets, arrays, TheNN)
    /\ PerturbedBy(WeightValues(nets', arrays', TheNN),
                   WeightValues(nets, arrays, TheNN), call'.noise, call'.seed)

IsNew == generation' = generation + 1 /\ call'.op = "init"

\* C14: the constructor builds a network exactly when one of weights and
\* layer_sizes is supplied, and raises when neither or both are.
C14_ExactlyOneSupplied ==
    [][IsNew =>
          (call'.status = "ok" <=> ((call'.weights = None) # (call'.layer_sizes = None)))
    ]_vars

\* C14 witness: the constructor was called with weights and layer_sizes and
\* built the network the car now has
C14_Witness ==
    /\ call.op = "init"
    /\ call.weights # None
    /\ call.layer_sizes # None
    /\ call.status = "ok"
    /\ WeightValues(nets, arrays, TheNN) = call.weights[1]

\* A step of SpecNN that is a call of activate
IsActivate == generation' = generation + 1 /\ call'.op = "activate"

\* C15: activate raises when the number of inputs is not layer_sizes[0], and
\* then leaves the network (weights, hidden layers, prev_weights,
\* prev_fitness) as it was.
C15_ShapeErrorKeepsState ==
    [][(IsActivate /\ Len(call'.inputs) # nets[TheNN].layer_sizes[1]) =>
          /\ call'.status = "ValueError"
          /\ nets' = nets
          /\ arrays' = arrays
    ]_vars

\* C15 witness: activate raised on three inputs, on a network with a hidden
\* layer and two inputs
C15_Witness ==
    /\ call.op = "activate"
    /\ Len(call.inputs) = 3
    /\ call.status = "ValueError"
    /\ nets[TheNN].layer_sizes = <<2, 1, 2>>

\* The output layer of the last activate call before np.clip, from the
\* hidden layers the call left in the network
RawOutputs ==
    DotWithBias(nets[TheNN].hiddens[Len(nets[TheNN].hiddens)],
                arrays[nets[TheNN].weights[Len(nets[TheNN].weights)]])

\* C25: for every network and every input vector of the right length, each
\* component of the vector that activate returns is in [-1, 1], whatever the
\* weights and the activation function.
C25_OutputsClipped ==
    call.op = "activate" /\ call.status = "ok" =>
        /\ Len(call.outputs)
               = nets[TheNN].layer_sizes[Len(nets[TheNN].layer_sizes)]
        /\ \A j \in DOMAIN call.outputs : call.outputs[j] \in -1000..1000

\* A call whose output layer exceeded the range on both sides before the
\* clip, on a network of activation leaky_relu
C25_Witness ==
    /\ call.op = "activate"
    /\ call.status = "ok"
    /\ nets[TheNN].activation = "leaky_relu"
    /\ \E j \in DOMAIN call.outputs : RawOutputs[j] > 1000 /\ call.outputs[j] = 1000
    /\ \E j \in DOMAIN call.outputs : RawOutputs[j] < -1000 /\ call.outputs[j] = -1000

\* C28: activate succeeds for every network built from layer_sizes of
\* length >= 2, a network with no hidden layer (layer_sizes = [in, out])
\* included, for which it returns clip(concat(inputs, [1]) . W_0, -1, 1).
C28_ActivateSucceeds ==
    call.op = "activate"
    /\ Len(nets[TheNN].layer_sizes) >= 2
    /\ Len(call.inputs) = nets[TheNN].layer_sizes[1]
    => /\ call.status = "ok"
       /\ Len(nets[TheNN].layer_sizes) = 2 =>
              call.outputs = Clip(DotWithBias(call.inputs,
                                              arrays[nets[TheNN].weights[1]]))

\* What the code keeps: activate succeeds on every network with at least
\* one hidden layer
C28_ActivateSucceedsWithHidden ==
    call.op = "activate"
    /\ Len(nets[TheNN].layer_sizes) >= 3
    /\ Len(nets[TheNN].hiddens) = Len(nets[TheNN].layer_sizes) - 2
    /\ Len(call.inputs) = nets[TheNN].layer_sizes[1]
    => call.status = "ok"

\* activate called with one input on a network built from layer_sizes
\* <<1, 2>>
C28_Witness ==
    /\ call.op = "activate"
    /\ nets[TheNN].layer_sizes = <<1, 2>>
    /\ nets[TheNN].hiddens = <<>>
    /\ Len(nets[TheNN].weights) = 1
    /\ arrays[nets[TheNN].weights[1]].shape = <<2, 2>>
    /\ Len(call.inputs) = 1

\* A step of SpecNN that is a round trip through serialize and deserialize
IsRoundTrip == generation' = generation + 1 /\ call'.op = "deserialize"

\* The network of the car after the step is the network before it, rebuilt:
\* same layer_sizes, as many matrices of the same shapes and values, no
\* mutation memory
Reconstructed ==
    /\ call'.status = "ok"
    /\ nets'[ai_cars'[1].nn].layer_sizes = nets[TheNN].layer_sizes
    /\ WeightValues(nets', arrays', ai_cars'[1].nn) = WeightValues(nets, arrays, TheNN)
    /\ nets'[ai_cars'[1].nn].prev_weights = None
    /\ nets'[ai_cars'[1].nn].prev_fitness = None

\* The layer sizes of the network agree with its matrices, of which there is
\* at least one
WellFormed(net, arrs) ==
    /\ Len(net.weights) > 0
    /\ net.layer_sizes = LayerSizesOf([k \in DOMAIN net.weights |-> arrs[net.weights[k]]])

\* C20: deserialize of serialize with the default init_mutate_noise yields,
\* for every network, a network with the same layer_sizes, the same number,
\* shapes and values of weight matrices, and prev_weights and prev_fitness
\* unset.
C20_RoundTrip ==
    [][(IsRoundTrip /\ call'.init_mutate_noise = 0) => Reconstructed]_vars

\* The round trip does reconstruct every well-formed network
RoundTripOfWellFormed ==
    [][(IsRoundTrip /\ call'.init_mutate_noise = 0 /\ WellFormed(nets[TheNN], arrays))
          => Reconstructed]_vars

\* C20 witness: a network built from layer sizes alone with one layer, which
\* has no weight matrix, was serialized, and deserialize raised
C20_Witness ==
    /\ call.op = "deserialize"
    /\ call.init_mutate_noise = 0
    /\ call.status = "ValueError"
    /\ nets[TheNN].layer_sizes = <<2>>
    /\ nets[TheNN].weights = <<>>

-----------------------------------------------------------------------------
(* Claims checked under SpecAI *)

TheAICar == ai_cars[1]

\* The entries of self.sensors: inputs[2:]
SensorsOf(c) == SubSeq(c.inputs, 3, Len(c.inputs))

\* reset_state has been called on the car
WasReset == call.op # "none"

\* C16: in every state of an AI car reached by reset_state followed by any
\* number of updates, the state right after reset_state included, every
\* sensor entry is in [0, 1] (0..1000 thousandths).
C16_SensorsNormalized ==
    WasReset => \A k \in DOMAIN SensorsOf(TheAICar) :
                   SensorsOf(TheAICar)[k] \in 0..1000

\* What the code keeps: after every update the sensor entries are in [0, 1];
\* right after reset_state every entry is SENSOR_DIST
SensorsAfterCalls ==
    /\ call.op = "update" =>
           \A k \in DOMAIN SensorsOf(TheAICar) : SensorsOf(TheAICar)[k] \in 0..1000
    /\ call.op = "reset_state" =>
           \A k \in DOMAIN SensorsOf(TheAICar) :
               SensorsOf(TheAICar)[k] = SENSOR_DIST * 1000

\* A car with two sensors right after reset_state, reset in the middle of a
\* run (inputs[0] still holds the speed of the last update)
C16_Witness ==
    /\ call.op = "reset_state"
    /\ Len(SensorsOf(TheAICar)) = 2
    /\ TheAICar.inputs[1] > 0

\* A sensor that measured an edge of the track within SENSOR_DIST
SensorMeasured ==
    /\ call.op = "update"
    /\ \E k \in DOMAIN SensorsOf(TheAICar) : SensorsOf(TheAICar)[k] \in 1..999

\* C27: once out_of_track of an AI car is true, the loops do not call update
\* on it again: its position, speed, progress, fitness and out_of_track are
\* the same after every later tick, until the next reset_state; the car
\* does not return to the track within the episode.
C27_OutCarFrozen ==
    [][TheAICar.out_of_track /\ call'.op # "reset_state" =>
          LET c == ai_cars'[1]
          IN  /\ c.x = TheAICar.x
              /\ c.y = TheAICar.y
              /\ c.rot = TheAICar.rot
              /\ c.speed = TheAICar.speed
              /\ c.progress = TheAICar.progress
              /\ get_fitness(c) = get_fitness(TheAICar)
              /\ c.out_of_track]_vars

\* A tick passed over a car that is out of the track and still has speed
C27_Witness ==
    /\ call.op = "skip"
    /\ TheAICar.out_of_track
    /\ TheAICar.speed # 0
    /\ ticks > 1

\* C17: after reset_state(track) the car is at point 0 of the curve with
\* speed, acceleration and progress 0, out_of_track false and
\* total_progress the length of the polyline; the weights of its network
\* are unchanged; a second reset_state changes nothing.
C17_ResetState ==
    [][call'.op = "reset_state" =>
          LET c == ai_cars'[1]
              t == Tracks[track']
          IN  /\ c.x = t.curve[1].x * 100
              /\ c.y = t.curve[1].y * 100
              /\ c.speed = 0
              /\ c.acceleration = 0
              /\ c.progress = 0
              /\ c.out_of_track = FALSE
              /\ c.total_progress = Len(t.polyline)
              /\ nets' = nets
              /\ arrays' = arrays
              /\ reset_state(c, t) = c]_vars

\* A car reset in the middle of a run: inputs[0] still holds the speed of
\* its last update
C17_Witness ==
    /\ call.op = "reset_state"
    /\ TheAICar.inputs[1] > 0
    /\ TheAICar.speed = 0
    /\ TheAICar.progress = 0
    /\ ~ TheAICar.out_of_track

-----------------------------------------------------------------------------
(* Claims checked under SpecPos *)

\* The position of vehicle v in the store arrs
PosOf(v, arrs) == arrs[v.pos].data

\* C18: updating one vehicle leaves the position, heading, speed, progress
\* and out_of_track of every other vehicle unchanged, vehicles constructed
\* with the default position argument included.
C18_OthersUnchanged ==
    [][call'.op = "update" =>
          \A j \in DOMAIN ai_cars :
              j # call'.car =>
                  /\ PosOf(ai_cars'[j], arrays') = PosOf(ai_cars[j], arrays)
                  /\ ai_cars'[j].rot = ai_cars[j].rot
                  /\ ai_cars'[j].speed = ai_cars[j].speed
                  /\ ai_cars'[j].progress = ai_cars[j].progress
                  /\ ai_cars'[j].out_of_track = ai_cars[j].out_of_track]_vars

\* What the code keeps: the fields that are not references, and the
\* position of every vehicle that does not share its array
C18_OthersUnchangedUnlessShared ==
    [][call'.op = "update" =>
          \A j \in DOMAIN ai_cars :
              j # call'.car =>
                  /\ ai_cars[j].pos # ai_cars[call'.car].pos =>
                         PosOf(ai_cars'[j], arrays') = PosOf(ai_cars[j], arrays)
                  /\ ai_cars'[j].rot = ai_cars[j].rot
                  /\ ai_cars'[j].speed = ai_cars[j].speed
                  /\ ai_cars'[j].progress = ai_cars[j].progress
                  /\ ai_cars'[j].out_of_track = ai_cars[j].out_of_track]_vars

\* Two vehicles constructed with the default position, one of which was
\* updated and moved
C18_Witness ==
    /\ call.op = "update"
    /\ ai_cars[1].pos = DefaultPos
    /\ ai_cars[2].pos = DefaultPos
    /\ PosOf(ai_cars[1], arrays) # <<0, 0>>

-----------------------------------------------------------------------------
(* Claims checked under SpecDecel *)

\* after is between 0 and before: the same sign or zero, no greater in
\* magnitude
NoOvershoot(before, after) ==
    IF before >= 0 THEN after \in 0..before ELSE after \in before..0

\* C19: in every update with forward = 0 and any dt > 0, the speed after
\* the deceleration step has the sign of the speed before it (or is zero)
\* and its magnitude has not increased.
C19_NoOvershoot ==
    [][call'.op = "decelerate" => NoOvershoot(car.speed, car'.speed)]_vars

\* What the code keeps: no overshoot while deceleration * dt <= 1
C19_NoOvershootSmallDt ==
    [][call'.op = "decelerate" /\ deceleration * call'.dt <= 1000000
          => NoOvershoot(car.speed, car'.speed)]_vars

\* A car that moved forward and moves backward after one deceleration step
C19_Witness ==
    /\ call.op = "decelerate"
    /\ call.before > 0
    /\ car.speed < 0

-----------------------------------------------------------------------------
(* Claims checked under SpecCar: the heading *)

\* C24: after every Car.update call, for any turn input (0 included) and
\* any heading left by the preceding reset, the heading of the car is in
\* [0, 2 pi).
C24_HeadingWrapped ==
    track # 0 /\ ticks > 0 => car.rot \in 0..(TwoPi - 1)

\* The first update after a reset that left a negative heading, with
\* turn = 0: the heading was wrapped into the range
C24_Witness ==
    /\ track # 0
    /\ ticks = 1
    /\ set_start_pos(car, Tracks[track]).rot < 0
    /\ car.rot = set_start_pos(car, Tracks[track]).rot + TwoPi

-----------------------------------------------------------------------------
(* Claims checked under SpecSel: the arguments of mutate *)

\* C23: in selection_and_reproduce the fitness passed to mutate for the
\* member replaced at index i >= select_count is the fitness of the car of
\* that slot in the episode just finished (progress / total_progress, no
\* reset having run), not the fitness of the parent whose network it got.
\* (With select_count = 0 the function returns at once: no member is
\* replaced and mutate is not called.)
C23_OwnFitnessPassed ==
    [][IsSelection =>
          /\ Len(call'.passed) = IF select_count = 0 THEN 0
                                 ELSE Len(ai_cars) - select_count
          /\ \A k \in DOMAIN call'.passed :
                 call'.passed[k]
                     = get_fitness(CarBefore(ai_cars'[select_count + k].id))]_vars

\* A call in which a replaced member had a fitness other than its parent's
C23_Witness ==
    /\ call.op = "selection_and_reproduce"
    /\ \E k \in DOMAIN call.passed :
           /\ call.passed[k] = get_fitness(ai_cars[select_count + k])
           /\ call.passed[k]
                  # get_fitness(ai_cars[ParentIndex(select_count + k - 1, select_count) + 1])

-----------------------------------------------------------------------------
(* Claims checked under SpecCurve *)

\* C21: for every curve with integer coordinates, the empty curve included,
\* BezierCurve.deserialize(curve.serialize()) has the same number of points
\* in the same order, each with the same x, y, control_x and control_y.
C21_CurveRoundTrip ==
    call.op = "deserialize" =>
        /\ call.status = "ok"
        /\ Len(call.pts) = Len(editor.curve)
        /\ \A i \in DOMAIN editor.curve :
               /\ call.pts[i].x = editor.curve[i].x
               /\ call.pts[i].y = editor.curve[i].y
               /\ call.pts[i].control_x = editor.curve[i].control_x
               /\ call.pts[i].control_y = editor.curve[i].control_y

\* The round trip of a curve of two points with negative coordinates and
\* coordinates of several digits
C21_Witness ==
    /\ call.op = "deserialize"
    /\ Len(editor.curve) = 2
    /\ editor.curve[1].x = -12
    /\ editor.curve[2].x = 105

\* The round trip of the empty curve
C21_WitnessEmpty == call.op = "deserialize" /\ editor.curve = <<>>

-----------------------------------------------------------------------------
(* Claims checked under SpecNNFresh *)

\* C26: in every state reached from the construction of a CarNN by any
\* sequence of activate, mutate (any noise, learn_rate and curr_fitness),
\* serialize / deserialize and deep copy, prev_weights and prev_fitness are
\* None: every mutate call of such a run takes the noise-only branch.
C26_NoMutationMemory ==
    \A id \in DOMAIN nets :
        nets[id].prev_weights = None /\ nets[id].prev_fitness = None

\* Two mutate calls were made, the second with a learning rate and a
\* fitness, the arguments under which a network with memory would take the
\* gradient branch
C26_Witness ==
    /\ generation = 2
    /\ call.op = "mutate"
    /\ call.learn_rate > 0
    /\ call.curr_fitness # None

-----------------------------------------------------------------------------
(* Claims checked under SpecCoast *)

\* C29: for a car that stays on the track and receives forward = 0 on every
\* tick at the fixed timestep, the speed eventually is exactly 0 (through
\* the snap of |speed| < 0.1) and from then on stays 0.
C29_SpeedSettlesAtZero == <>[](car.speed = 0)

\* The tick of the snap: the decay brought the speed below 0.1 without
\* reaching 0, and the speed was set to 0
C29_Witness ==
    /\ call.op = "coast"
    /\ call.before >= 100
    /\ car.speed = 0
    /\ call.before - TruncDiv(call.before * ((deceleration * fixed_dt) \div 100), 10000) # 0

-----------------------------------------------------------------------------
(* Claims checked under SpecEdit *)

\* C30: in the track editor, after any sequence of on_mouse_down,
\* on_mouse_up, on_mouse_moved and on_key_pressed events (undo on an empty
\* or a one-point curve included), the edit state is None or refers to an
\* index strictly less than the number of points: no handler indexes a
\* point that was removed.
C30_EditIndexValid ==
    /\ editor.edit # None => editor.edit[1].index \in 0..(Len(editor.curve) - 1)
    /\ call.op # "none" => call.status = "ok"

\* Undo was pressed on a curve of one point
C30_Witness ==
    /\ call.op = "on_key_pressed"
    /\ call.points = 1
    /\ editor.curve = <<>>
    /\ editor.edit = None

\* A point of index 1 is being dragged: the edit state refers to the last
\* of two points
C30_WitnessDrag ==
    /\ editor.edit # None
    /\ editor.edit[1].index = 1
    /\ Len(editor.curve) = 2
    /\ call.op = "on_mouse_moved"

====
